---- MODULE Spec2Model ----
(***************************************************************************)
(* Gatekeeping layer of the hotel back-office API: the token service       *)
(* (backend/middlewares/auth.js), the user and role records it reads       *)
(* (backend/models/Role.js), the throttle policies                         *)
(* (backend/middlewares/rateLimiter.js), the access-control middlewares    *)
(* (backend/middlewares/index.js), the start and the shutdown of the       *)
(* process (backend/server.js, config/db.js) and the number generators of  *)
(* the Reservation and Payment schemas.                                    *)
(***************************************************************************)
EXTENDS Integers, Sequences, FiniteSets, TLC

VARIABLES
    now,            \* the wall clock, in ticks of MsPerTick milliseconds
    redisOpen,      \* redisClient.isOpen
    redisStore,     \* the blacklist:<jti> keys of Redis, each with its expiry
    tokenBlacklist, \* the in-process Set of auth.js
    users,          \* the User collection
    roles,          \* the Role collection
    issued,         \* the credential pairs createSendToken has handed out
    req,            \* the request that is passing through protect / logout
    adminOps,       \* number of administrative changes of the credential store
    lastChange,     \* per user, the time its password was last changed (NoDate: never)
    counters,       \* per throttle policy and key, the store's client {totalHits, resetTime}
    treq,           \* the requests passing through a throttle middleware
    window,         \* per policy and key, how many windows the store has opened
    admitted,       \* per policy, key and window, the requests let through
    mounted,        \* the throttle middlewares mounted on the routes the requests take
    rbac,           \* the request that is passing through an access-control middleware
    env,            \* process.env, as validateEnvironment let the server start with it
    slow,           \* one key of a slow-down middleware: its hits in the window, the last delay
    pipe,           \* the request that is passing through the middleware stack of createApp
    iss,            \* the calls of createSendToken in progress, one per slot
    sink,           \* the audit writes started and not awaited, and the AuditLog collection
    db,             \* the call of connectDB that bootstrap makes
    proc,           \* the server process once it listens: its server, its shutdown, its exit
    saves,          \* the saves of new reservations and payments in progress, one per slot
    coll            \* per model, the numbers of the documents stored today

authVars ==
    <<now, redisOpen, redisStore, tokenBlacklist, users, roles, issued, req, adminOps,
      lastChange>>

throttleVars == <<counters, treq, window, admitted, mounted>>

rbacVars == <<rbac>>

configVars == <<env>>

slowVars == <<slow>>

appVars == <<pipe>>

auditVars == <<iss, sink>>

processVars == <<db, proc>>

documentVars == <<saves, coll>>

vars == <<authVars, throttleVars, rbacVars, configVars, processVars, documentVars, slowVars, appVars, auditVars>>

-----------------------------------------------------------------------------
(* Bounds of the model *)

MaxUsers == 2
MaxIssued == 2
MaxIssuedStore == 1
MaxTime == 4
MaxAdminOps == 2
TicksPerSec == 1
AccessTtlSec == 3
RefreshTtlSec == 5

(* Program constants *)

MsPerSec == 1000
SliceKeep == 5
PasswordBackdateMs == 1000

MsPerTick == MsPerSec \div TicksPerSec

UserIds == 1..MaxUsers

RoleNames == {"ADMIN", "RECEPTIONIST"}

AccountStatuses == {"ACTIVE", "INACTIVE", "SUSPENDED", "PENDING"}

UserSchemaPaths ==
    {"fullName", "email", "phone", "password", "role", "accountStatus", "lastLogin",
     "passwordChangedAt", "passwordResetToken", "passwordResetExpires", "profileImage"}

NoDate == -1

NoUser == [id |-> 0]

-----------------------------------------------------------------------------
(* Clock *)

NowMs == now * MsPerTick

\* Math.floor(Date.now() / 1000)
NowSec == NowMs \div MsPerSec

-----------------------------------------------------------------------------
(* AppError values passed to next() by protect *)

AppError(message, statusCode) == [message |-> message, statusCode |-> statusCode]

NoError == AppError("", 0)

ErrNotLoggedIn == AppError("You are not logged in. Please log in to get access.", 401)
ErrExpired == AppError("Your session has expired. Please log in again.", 401)
ErrInvalid == AppError("Invalid token. Please log in again.", 401)
ErrRevoked == AppError("Token has been revoked. Please log in again.", 401)
ErrNotFound == AppError("The user belonging to this token no longer exists.", 401)
ErrRoleDisabled ==
    AppError("Your assigned role has been deactivated. Please contact the administrator.", 403)
ErrStale == AppError("Password was recently changed. Please log in again.", 401)
ErrAuthFailed == AppError("Authentication failed. Please try again.", 500)

\* String.prototype.toLowerCase on the account status values
ToLowerCase(s) ==
    CASE s = "ACTIVE" -> "active"
      [] s = "INACTIVE" -> "inactive"
      [] s = "SUSPENDED" -> "suspended"
      [] s = "PENDING" -> "pending"

ErrAccountDisabled(status) ==
    AppError("Your account is " \o ToLowerCase(status) \o ". Please contact the administrator.", 403)

-----------------------------------------------------------------------------
(* Credentials: jsonwebtoken's sign and verify *)

\* crypto.randomUUID(): the k-th issuance draws two identifiers nobody holds yet
AccessJti(k) == 2 * k - 1

RefreshJti(k) == 2 * k

\* jwt.sign({id, role, jti}, JWT_SECRET, {expiresIn})
signToken(k, userId, role) ==
    [jti |-> AccessJti(k), id |-> userId, role |-> role, type |-> "access",
     iat |-> NowSec, exp |-> NowSec + env.JWT_EXPIRES_IN, secret |-> env.JWT_SECRET]

\* jwt.sign({id, jti, type: 'refresh'}, JWT_REFRESH_SECRET, {expiresIn})
signRefreshToken(k, userId) ==
    [jti |-> RefreshJti(k), id |-> userId, role |-> "", type |-> "refresh",
     iat |-> NowSec, exp |-> NowSec + RefreshTtlSec, secret |-> env.JWT_REFRESH_SECRET]

\* a credential nobody signed with a secret of this server
ForgedToken ==
    [jti |-> 0, id |-> 1, role |-> "ADMIN", type |-> "access",
     iat |-> 0, exp |-> MaxTime + 1, secret |-> "forged"]

NoToken ==
    [jti |-> 0, id |-> 0, role |-> "", type |-> "none", iat |-> 0, exp |-> 0, secret |-> ""]

\* jwt.verify as with ignoreExpiration: the signature alone is checked
verifyJWTIgnoringExpiry(token) ==
    IF token.secret # env.JWT_SECRET THEN "JsonWebTokenError" ELSE "ok"

\* verifyJWT(token, process.env.JWT_SECRET): the error name, or "ok"
verifyJWT(token) ==
    IF token.secret # env.JWT_SECRET THEN "JsonWebTokenError"
    ELSE IF NowSec >= token.exp THEN "TokenExpiredError"
    ELSE "ok"

-----------------------------------------------------------------------------
(* Environment: backend/server.js *)

JwtMinLength == 32

\* values a secret of the environment may have; "" is a variable that is not set
Secrets ==
    {"", "change-me", "k3Jx9Qw2Lr8Tz5Vb1Nc7Md4Hf6Gs0PyAe", "Zp4Wm8Rt2Ys6Ub0Ka3Lc9Ev5Xh1Qn7DgJo"}

\* the lifetimes JWT_EXPIRES_IN is set to, in seconds
ExpiresInValues == {AccessTtlSec, AccessTtlSec + 1}

Configs ==
    [NODE_ENV : {"production", "development"}, JWT_SECRET : Secrets,
     JWT_REFRESH_SECRET : Secrets, JWT_EXPIRES_IN : ExpiresInValues]

\* validateEnvironment(): "exit" where it calls process.exit(1)
validateEnvironment(e) ==
    IF e.JWT_SECRET = "" \/ e.JWT_REFRESH_SECRET = "" THEN "exit"
    ELSE IF e.NODE_ENV = "production"
            /\ \/ Len(e.JWT_SECRET) < JwtMinLength
               \/ Len(e.JWT_REFRESH_SECRET) < JwtMinLength
               \/ e.JWT_SECRET = e.JWT_REFRESH_SECRET
    THEN "exit"
    ELSE "ok"

\* the environments the server starts with
StartableConfigs == {e \in Configs : validateEnvironment(e) = "ok"}

ProductionEnv ==
    [NODE_ENV |-> "production", JWT_SECRET |-> "k3Jx9Qw2Lr8Tz5Vb1Nc7Md4Hf6Gs0PyAe",
     JWT_REFRESH_SECRET |-> "Zp4Wm8Rt2Ys6Ub0Ka3Lc9Ev5Xh1Qn7DgJo",
     JWT_EXPIRES_IN |-> AccessTtlSec]

-----------------------------------------------------------------------------
(* Revocation store *)

RedisKeyLive(jti) == \E e \in redisStore : e.jti = jti /\ e.expireAt > NowMs

\* redisClient.setEx(key, seconds, 'true'): Redis refuses a non-positive expiry
RedisSetExThrows(failed, seconds) == failed \/ seconds <= 0

RedisSetEx(jti, seconds) ==
    {e \in redisStore : e.jti # jti /\ e.expireAt > NowMs}
        \cup {[jti |-> jti, expireAt |-> NowMs + seconds * MsPerSec]}

\* isTokenBlacklisted(jti); failed: redisClient.get rejects
isTokenBlacklisted(jti, failed) ==
    IF redisOpen /\ ~failed
    THEN RedisKeyLive(jti)
    ELSE jti \in tokenBlacklist

-----------------------------------------------------------------------------
(* Credential store *)

\* findById as a query that forgets its filter: the first stored user comes back
findByIdNoFilter(id) ==
    IF \E u \in UserIds : users[u].exists
    THEN LET first == CHOOSE u \in UserIds : users[u].exists /\ \A v \in UserIds : users[v].exists => u <= v
         IN  [id |-> first,
              accountStatus |-> users[first].accountStatus,
              role |-> [name |-> users[first].role,
                        isActive |-> roles[users[first].role].isActive],
              passwordChangedAt |-> users[first].passwordChangedAt]
    ELSE [id |-> 0]

\* User.findById(id).select('+passwordChangedAt').populate('role')
findById(id) ==
    IF id \in UserIds /\ users[id].exists
    THEN [id |-> id,
          accountStatus |-> users[id].accountStatus,
          role |-> [name |-> users[id].role, isActive |-> roles[users[id].role].isActive],
          passwordChangedAt |-> users[id].passwordChangedAt]
    ELSE NoUser

\* userSchema.methods.changedPasswordAfter
changedPasswordAfter(user, JWTTimestamp) ==
    IF user.passwordChangedAt # NoDate
    THEN JWTTimestamp < user.passwordChangedAt \div MsPerSec
    ELSE FALSE

\* MongoDB's $push with $each: [x] and $slice: -n
PushSlice(list, x, n) ==
    LET all == Append(list, x)
    IN  IF Len(all) > n THEN SubSeq(all, Len(all) - n + 1, Len(all)) ELSE all

\* Mongoose casts an update against the schema: under the default strict mode the
\* paths the schema does not declare are dropped from it
CastUpdate(paths) == paths \cap UserSchemaPaths

\* User.findByIdAndUpdate(id, {lastLogin, $push: {refreshTokenJtis: ...}})
findByIdAndUpdate(id, refreshJti) ==
    LET kept == CastUpdate({"lastLogin", "refreshTokenJtis"})
        u == users[id]
    IN  IF ~u.exists THEN users
        ELSE [users EXCEPT ![id] =
                [u EXCEPT
                   !.lastLogin = IF "lastLogin" \in kept THEN NowMs ELSE @,
                   !.refreshTokenJtis =
                       IF "refreshTokenJtis" \in kept
                       THEN PushSlice(@, refreshJti, SliceKeep)
                       ELSE @]]

\* the renewal hint of protect, step 9
\* the hint raised from 75% of the lifetime on, the boundary included
RefreshHintInclusive(decoded) ==
    LET tokenAge == NowSec - decoded.iat
        tokenTTL == decoded.exp - decoded.iat
    IN  4 * tokenAge >= 3 * tokenTTL

\* protect, step 9: tokenAge > tokenTTL * 0.75
RefreshHint(decoded) ==
    LET tokenAge == NowSec - decoded.iat
        tokenTTL == decoded.exp - decoded.iat
    IN  4 * tokenAge > 3 * tokenTTL

-----------------------------------------------------------------------------
(* The request in flight *)

IdleReq ==
    [pc |-> "idle", token |-> NoToken, blacklisted |-> FALSE, currentUser |-> NoUser,
     error |-> NoError, user |-> NoUser, hasToken |-> FALSE, hint |-> FALSE,
     expiresIn |-> 0, lookupFailed |-> FALSE, queryFailed |-> FALSE, audit |-> "none",
     nexts |-> 0]

\* next(err) or next(): the next handler is invoked once more for the request
CallNext(r) == [r EXCEPT !.nexts = @ + 1]

AccessTokens == {issued[i].access : i \in 1..Len(issued)}

RefreshTokens == {issued[i].refresh : i \in 1..Len(issued)}

\* what a caller can put in the Authorization header or the jwt cookie
PresentableTokens == AccessTokens \cup RefreshTokens \cup {ForgedToken, NoToken}

\* the checks of protect with the role check moved before the account status check
ProtectChecksRoleFirst(r, currentUser) ==
    IF currentUser = NoUser
    THEN [CallNext(r) EXCEPT !.pc = "rejected", !.error = ErrNotFound]
    ELSE IF ~currentUser.role.isActive
    THEN [CallNext(r) EXCEPT !.pc = "rejected", !.currentUser = currentUser, !.error = ErrRoleDisabled]
    ELSE IF currentUser.accountStatus # "ACTIVE"
    THEN [CallNext(r) EXCEPT !.pc = "rejected", !.currentUser = currentUser,
                   !.error = ErrAccountDisabled(currentUser.accountStatus)]
    ELSE IF changedPasswordAfter(currentUser, r.token.iat)
    THEN [CallNext(r) EXCEPT !.pc = "rejected", !.currentUser = currentUser, !.error = ErrStale]
    ELSE [CallNext(r) EXCEPT !.pc = "authenticated", !.currentUser = currentUser,
                   !.user = currentUser, !.hasToken = TRUE, !.hint = RefreshHint(r.token)]

\* the checks of protect with step 8 moved up: the user and the token are attached as soon
\* as the user is loaded
ProtectChecksAttachFirst(r, currentUser) ==
    IF currentUser = NoUser
    THEN [CallNext(r) EXCEPT !.pc = "rejected", !.error = ErrNotFound]
    ELSE LET attached == [r EXCEPT !.user = currentUser, !.hasToken = TRUE]
         IN  IF currentUser.accountStatus # "ACTIVE"
             THEN [CallNext(attached) EXCEPT !.pc = "rejected", !.currentUser = currentUser,
                            !.error = ErrAccountDisabled(currentUser.accountStatus)]
             ELSE IF ~currentUser.role.isActive
             THEN [CallNext(attached) EXCEPT !.pc = "rejected", !.currentUser = currentUser,
                            !.error = ErrRoleDisabled]
             ELSE IF changedPasswordAfter(currentUser, r.token.iat)
             THEN [CallNext(attached) EXCEPT !.pc = "rejected", !.currentUser = currentUser,
                            !.error = ErrStale]
             ELSE [CallNext(attached) EXCEPT !.pc = "authenticated",
                            !.currentUser = currentUser, !.hint = RefreshHint(r.token)]

\* protect, steps 4 to 9: the checks made on the loaded user, with no await between them
ProtectChecks(r, currentUser) ==
    IF currentUser = NoUser
    THEN [CallNext(r) EXCEPT !.pc = "rejected", !.error = ErrNotFound]
    ELSE IF currentUser.accountStatus # "ACTIVE"
    THEN [CallNext(r) EXCEPT !.pc = "rejected", !.currentUser = currentUser,
                   !.error = ErrAccountDisabled(currentUser.accountStatus)]
    ELSE IF ~currentUser.role.isActive
    THEN [CallNext(r) EXCEPT !.pc = "rejected", !.currentUser = currentUser, !.error = ErrRoleDisabled]
    ELSE IF changedPasswordAfter(currentUser, r.token.iat)
    THEN [CallNext(r) EXCEPT !.pc = "rejected", !.currentUser = currentUser, !.error = ErrStale]
    ELSE [CallNext(r) EXCEPT !.pc = "authenticated", !.currentUser = currentUser,
                   !.user = currentUser, !.hasToken = TRUE, !.hint = RefreshHint(r.token)]

\* protect, steps 1: extractToken
ProtectExtract(t) ==
    /\ req.pc = "idle"
    /\ req' = IF t = NoToken
              THEN [CallNext(req) EXCEPT !.pc = "rejected", !.error = ErrNotLoggedIn]
              ELSE [req EXCEPT !.pc = "verify", !.token = t]
    /\ UNCHANGED <<now, redisOpen, redisStore, tokenBlacklist, users, roles, issued, adminOps, lastChange, throttleVars, rbacVars, configVars, processVars, documentVars, slowVars, appVars, auditVars>>

\* protect, step 2: await verifyJWT
ProtectVerify ==
    /\ req.pc = "verify"
    /\ req' = CASE verifyJWT(req.token) = "TokenExpiredError" ->
                     [CallNext(req) EXCEPT !.pc = "rejected", !.error = ErrExpired]
                [] verifyJWT(req.token) = "JsonWebTokenError" ->
                     [CallNext(req) EXCEPT !.pc = "rejected", !.error = ErrInvalid]
                [] OTHER -> [req EXCEPT !.pc = "blacklist"]
    /\ UNCHANGED <<now, redisOpen, redisStore, tokenBlacklist, users, roles, issued, adminOps, lastChange, throttleVars, rbacVars, configVars, processVars, documentVars, slowVars, appVars, auditVars>>

\* protect, step 3: await isTokenBlacklisted(decoded.jti)
ProtectBlacklist(failed) ==
    /\ req.pc = "blacklist"
    /\ failed => redisOpen
    /\ LET blacklisted == isTokenBlacklisted(req.token.jti, failed)
       IN  req' = IF blacklisted
                  THEN [CallNext(req) EXCEPT !.pc = "rejected", !.blacklisted = TRUE,
                                   !.lookupFailed = failed, !.error = ErrRevoked]
                  ELSE [req EXCEPT !.pc = "findUser", !.lookupFailed = failed]
    /\ UNCHANGED <<now, redisOpen, redisStore, tokenBlacklist, users, roles, issued, adminOps, lastChange, throttleVars, rbacVars, configVars, processVars, documentVars, slowVars, appVars, auditVars>>

\* what User.findById rejects with when the store cannot be reached
StoreException ==
    [name |-> "MongoNetworkError", message |-> "connect ECONNREFUSED 127.0.0.1:27017"]

\* the catch block of protect handing the exception on as it came: next(error)
protectCatchForwards(error) == AppError(error.message, 0)

\* the catch block of protect: next(new AppError('Authentication failed. ...', 500))
protectCatch(error) == ErrAuthFailed

\* globalErrorHandler: the response to next(err); an err without statusCode (0 here) is
\* not an AppError, so not operational
globalErrorHandler(nodeEnv, err) ==
    LET statusCode == IF err.statusCode = 0 THEN 500 ELSE err.statusCode
        isOperational == err.statusCode # 0
    IN  IF nodeEnv = "development"
        THEN [statusCode |-> statusCode, message |-> err.message, stack |-> TRUE]
        ELSE IF isOperational
        THEN [statusCode |-> statusCode, message |-> err.message, stack |-> FALSE]
        ELSE [statusCode |-> 500,
              message |-> "Something went wrong. Please try again later.",
              stack |-> FALSE]

\* protect, steps 4 to 9: await User.findById, then the checks; failed: the query rejects
ProtectLoad(failed) ==
    /\ req.pc = "findUser"
    /\ req' = IF failed
              THEN [CallNext(req) EXCEPT !.pc = "rejected", !.queryFailed = TRUE,
                               !.error = protectCatch(StoreException)]
              ELSE ProtectChecks(req, findById(req.token.id))
    /\ UNCHANGED <<now, redisOpen, redisStore, tokenBlacklist, users, roles, issued, adminOps, lastChange, throttleVars, rbacVars, configVars, processVars, documentVars, slowVars, appVars, auditVars>>

\* the response is sent (by the error handler or by the route's handler)
Respond ==
    /\ req.pc \in {"rejected", "authenticated", "loggedOut", "loggedOutAnon", "optDone"}
    /\ req' = IdleReq
    /\ UNCHANGED <<now, redisOpen, redisStore, tokenBlacklist, users, roles, issued, adminOps, lastChange, throttleVars, rbacVars, configVars, processVars, documentVars, slowVars, appVars, auditVars>>

-----------------------------------------------------------------------------
(* optionalAuth *)

\* optionalAuth up to its first await: without a token the request goes on anonymous
OptionalExtract(t) ==
    /\ req.pc = "idle"
    /\ req' = IF t = NoToken
              THEN [CallNext(req) EXCEPT !.pc = "optDone"]
              ELSE [req EXCEPT !.pc = "optVerify", !.token = t]
    /\ UNCHANGED <<now, redisOpen, redisStore, tokenBlacklist, users, roles, issued, adminOps, lastChange, throttleVars, rbacVars, configVars, processVars, documentVars, slowVars, appVars, auditVars>>

\* await verifyJWT(token, process.env.JWT_SECRET); the catch leaves req.user null
OptionalVerify ==
    /\ req.pc = "optVerify"
    /\ req' = IF verifyJWT(req.token) = "ok"
              THEN [req EXCEPT !.pc = "optFind"]
              ELSE [CallNext(req) EXCEPT !.pc = "optDone"]
    /\ UNCHANGED <<now, redisOpen, redisStore, tokenBlacklist, users, roles, issued, adminOps, lastChange, throttleVars, rbacVars, configVars, processVars, documentVars, slowVars, appVars, auditVars>>

\* await User.findById(decoded.id).populate('role'), then next(); failed: the query rejects
OptionalLoad(failed) ==
    /\ req.pc = "optFind"
    /\ req' = IF failed
              THEN [CallNext(req) EXCEPT !.pc = "optDone", !.queryFailed = TRUE]
              ELSE LET user == findById(req.token.id)
                   IN  IF user # NoUser /\ user.accountStatus = "ACTIVE"
                       THEN [CallNext(req) EXCEPT !.pc = "optDone", !.user = user]
                       ELSE [CallNext(req) EXCEPT !.pc = "optDone"]
    /\ UNCHANGED <<now, redisOpen, redisStore, tokenBlacklist, users, roles, issued, adminOps, lastChange, throttleVars, rbacVars, configVars, processVars, documentVars, slowVars, appVars, auditVars>>

-----------------------------------------------------------------------------
(* logout, on a route that runs protect first *)

\* logout up to the call of blacklistToken: with Redis closed the Set is written at once
\* what AuditLog.create does with a write: it stores the entry or it rejects
SinkOutcomes == {"created", "rejected"}

\* logAction with the catch block left out: the rejection reaches the caller
logActionRethrows(outcome) == IF outcome = "created" THEN "entry" ELSE "throw"

\* AuditLog.logAction: the entry, or null when create rejected
logAction(outcome) == IF outcome = "created" THEN "entry" ELSE "null"

ErrLogoutFailed == AppError("Logout failed. Please try again.", 500)

LogoutBegin ==
    /\ req.pc = "authenticated"
    /\ LET remainingTime == req.token.exp - NowSec
           expiresIn == IF remainingTime > 0 THEN remainingTime ELSE 0
       IN  IF redisOpen
           THEN /\ req' = [req EXCEPT !.pc = "setEx", !.expiresIn = expiresIn]
                /\ UNCHANGED tokenBlacklist
           ELSE /\ req' = [req EXCEPT !.pc = "logoutAudit"]
                /\ tokenBlacklist' = tokenBlacklist \cup {req.token.jti}
    /\ UNCHANGED <<now, redisOpen, redisStore, users, roles, issued, adminOps, lastChange, throttleVars, rbacVars, configVars, processVars, documentVars, slowVars, appVars, auditVars>>

\* blacklistToken after await redisClient.setEx: the Set is written whether it threw or not
LogoutSetEx(failed) ==
    /\ req.pc = "setEx"
    /\ redisStore' = IF RedisSetExThrows(failed, req.expiresIn)
                     THEN redisStore
                     ELSE RedisSetEx(req.token.jti, req.expiresIn)
    /\ tokenBlacklist' = tokenBlacklist \cup {req.token.jti}
    /\ req' = [req EXCEPT !.pc = "logoutAudit", !.expiresIn = 0]
    /\ UNCHANGED <<now, redisOpen, users, roles, issued, adminOps, lastChange, throttleVars, rbacVars, configVars, processVars, documentVars, slowVars, appVars, auditVars>>

\* logout after await AuditLog.logAction: the cookies are cleared and 200 is answered
LogoutAudit(outcome) ==
    /\ req.pc = "logoutAudit"
    /\ req' = IF logAction(outcome) = "throw"
              THEN [req EXCEPT !.pc = "rejected", !.error = ErrLogoutFailed]
              ELSE [req EXCEPT !.pc = "loggedOut", !.audit = logAction(outcome)]
    /\ UNCHANGED <<now, redisOpen, redisStore, tokenBlacklist, users, roles, issued, adminOps, lastChange, throttleVars, rbacVars, configVars, processVars, documentVars, slowVars, appVars, auditVars>>

\* logout on a route where protect has not run: req.token and req.user are not set, so
\* nothing is revoked and nothing audited; the cookies are cleared and 200 is answered
LogoutUnprotected(t) ==
    /\ req.pc = "idle"
    /\ req' = [IdleReq EXCEPT !.pc = "loggedOutAnon", !.token = t]
    /\ UNCHANGED <<now, redisOpen, redisStore, tokenBlacklist, users, roles, issued, adminOps, lastChange, throttleVars, rbacVars, configVars, processVars, documentVars, slowVars, appVars, auditVars>>

-----------------------------------------------------------------------------
(* Issue *)

\* createSendToken(user, ...): both credentials are signed, then the user record is updated
createSendToken(u) ==
    /\ users[u].exists
    /\ LET k == Len(issued) + 1
       IN  /\ issued' = Append(issued,
                   [access |-> signToken(k, u, users[u].role),
                    refresh |-> signRefreshToken(k, u), at |-> NowMs])
           /\ users' = findByIdAndUpdate(u, RefreshJti(k))
    /\ UNCHANGED <<now, redisOpen, redisStore, tokenBlacklist, roles, req, adminOps, lastChange, throttleVars, rbacVars, configVars, processVars, documentVars, slowVars, appVars, auditVars>>

-----------------------------------------------------------------------------
(* The credential store's other writers, the clock and Redis *)

\* userSchema.pre('save') on a stored user whose password was modified
ChangePassword(u) ==
    /\ adminOps < MaxAdminOps
    /\ users[u].exists
    /\ users' = [users EXCEPT ![u].passwordChangedAt = NowMs - PasswordBackdateMs]
    /\ lastChange' = [lastChange EXCEPT ![u] = NowMs]
    /\ adminOps' = adminOps + 1
    /\ UNCHANGED <<now, redisOpen, redisStore, tokenBlacklist, roles, issued, req, throttleVars, rbacVars, configVars, processVars, documentVars, slowVars, appVars, auditVars>>

SetAccountStatus(u, status) ==
    /\ adminOps < MaxAdminOps
    /\ users[u].exists
    /\ users[u].accountStatus # status
    /\ users' = [users EXCEPT ![u].accountStatus = status]
    /\ adminOps' = adminOps + 1
    /\ UNCHANGED <<now, redisOpen, redisStore, tokenBlacklist, roles, issued, req, lastChange, throttleVars, rbacVars, configVars, processVars, documentVars, slowVars, appVars, auditVars>>

DeleteUser(u) ==
    /\ adminOps < MaxAdminOps
    /\ users[u].exists
    /\ users' = [users EXCEPT ![u].exists = FALSE]
    /\ adminOps' = adminOps + 1
    /\ UNCHANGED <<now, redisOpen, redisStore, tokenBlacklist, roles, issued, req, lastChange, throttleVars, rbacVars, configVars, processVars, documentVars, slowVars, appVars, auditVars>>

SetRoleActive(r, active) ==
    /\ adminOps < MaxAdminOps
    /\ roles[r].isActive # active
    /\ roles' = [roles EXCEPT ![r].isActive = active]
    /\ adminOps' = adminOps + 1
    /\ UNCHANGED <<now, redisOpen, redisStore, tokenBlacklist, users, issued, req, lastChange, throttleVars, rbacVars, configVars, processVars, documentVars, slowVars, appVars, auditVars>>

Tick ==
    /\ now < MaxTime
    /\ now' = now + 1
    /\ UNCHANGED <<redisOpen, redisStore, tokenBlacklist, users, roles, issued, req, adminOps, lastChange, throttleVars, rbacVars, configVars, processVars, documentVars, slowVars, appVars, auditVars>>

\* the Redis connection opens or closes
RedisFlip ==
    /\ redisOpen' = ~redisOpen
    /\ UNCHANGED <<now, redisStore, tokenBlacklist, users, roles, issued, req, adminOps, lastChange, throttleVars, rbacVars, configVars, processVars, documentVars, slowVars, appVars, auditVars>>

-----------------------------------------------------------------------------

(* Throttle policies: express-rate-limit and express-slow-down as rateLimiter.js sets them up *)

MaxConcurrent == 2
MaxHits == 6
MaxThrottleTicks == 2
TicksPerWindow == 2

AuthMax == 5
PasswordResetMax == 3
AuthSlowDelayAfter == 2
AuthSlowDelayStepMs == 500
AuthSlowMaxDelayMs == 10000

AuthWindowMs == 15 * 60 * 1000

PasswordResetWindowMs == 60 * 60 * 1000

\* one tick of the throttle clock
ThrottleTickMs == PasswordResetWindowMs \div TicksPerWindow

ThrottleNowMs == now * ThrottleTickMs

Policies == {"auth", "pwd_reset", "auth_slow"}

HardPolicies == {"auth", "pwd_reset"}

WindowMs(policy) == IF policy = "pwd_reset" THEN PasswordResetWindowMs ELSE AuthWindowMs

\* max of a rateLimit policy; express-slow-down counts without a ceiling
MaxOf(policy) ==
    CASE policy = "auth" -> AuthMax
      [] policy = "pwd_reset" -> PasswordResetMax
      [] OTHER -> MaxHits + 1

Ips == {"203.0.113.7", "127.0.0.1", "::1", "::ffff:127.0.0.1"}

Emails == {"Bob@Hotel.io"}

\* req.body.email.toLowerCase()
EmailToLowerCase(email) == IF email = "Bob@Hotel.io" THEN "bob@hotel.io" ELSE email

\* createSkipFn(trustedIPs) with the default trustedIPs = []
SkipWithoutMappedLoopback(ip) == ip \in {"127.0.0.1", "::1"}

createSkipFn(ip) == ip \in {"127.0.0.1", "::1", "::ffff:127.0.0.1"}

\* one prefix for the keys of every policy
keyGeneratorOnePrefix(policy, ip, email) == <<"auth", ip, EmailToLowerCase(email)>>

\* the keyGenerator of authLimiter, passwordResetLimiter and authSpeedLimiter
keyGenerator(policy, ip, email) == <<policy, ip, EmailToLowerCase(email)>>

Keys == {keyGenerator(p, ip, e) : p \in Policies, ip \in Ips, e \in Emails}

\* MemoryStore.increment without the reset at the end of the window
IncrementNoReset(client, windowMs) ==
    [totalHits |-> client.totalHits + 1, resetTime |-> client.resetTime]

\* MemoryStore.increment: a client whose window has elapsed starts again from zero
StoreIncrement(client, windowMs) ==
    IF client.resetTime <= ThrottleNowMs
    THEN [totalHits |-> 1, resetTime |-> ThrottleNowMs + windowMs]
    ELSE [totalHits |-> client.totalHits + 1, resetTime |-> client.resetTime]

\* the count the middleware compares, taken before the increment
HitsBeforeIncrement(client) == client.totalHits - 1

\* the totalHits that store.increment resolves to
HitsSeen(client) == client.totalHits

\* rateLimit: the handler answers 429 once totalHits exceeds max
Exceeded(policy, totalHits) == policy \in HardPolicies /\ totalHits > MaxOf(policy)

\* slowDown: delayMs(hits) past delayAfter, capped at maxDelayMs
DelayOf(policy, totalHits) ==
    IF policy = "auth_slow" /\ totalHits > AuthSlowDelayAfter
    THEN IF totalHits * AuthSlowDelayStepMs > AuthSlowMaxDelayMs
         THEN AuthSlowMaxDelayMs
         ELSE totalHits * AuthSlowDelayStepMs
    ELSE 0

IdleThrottled ==
    [pc |-> "idle", policy |-> "auth", ip |-> "127.0.0.1", email |-> "bob@hotel.io",
     totalHits |-> 0, window |-> 0, statusCode |-> 0, delay |-> 0]

Slots == 1..MaxConcurrent

KeyOfSlot(i) == keyGenerator(treq[i].policy, treq[i].ip, treq[i].email)

\* requests that are between the skip check and store.increment under a key
Pending(key) == {i \in Slots : treq[i].pc = "increment" /\ KeyOfSlot(i) = key}

\* the middleware up to its first await after skip: a trusted caller is passed on at once
ThrottleArrive(i, policy, ip, email) ==
    /\ treq[i].pc = "idle"
    /\ policy \in mounted
    /\ LET key == keyGenerator(policy, ip, email)
       IN  \/ createSkipFn(ip)
           \/ counters[key].resetTime <= ThrottleNowMs
           \/ counters[key].totalHits + Cardinality(Pending(key)) < MaxHits
    /\ treq' = [treq EXCEPT ![i] =
                  IF createSkipFn(ip)
                  THEN [IdleThrottled EXCEPT !.pc = "done", !.policy = policy, !.ip = ip,
                                             !.email = email, !.statusCode = 200]
                  ELSE [IdleThrottled EXCEPT !.pc = "increment", !.policy = policy,
                                             !.ip = ip, !.email = email]]
    /\ UNCHANGED <<counters, window, admitted, mounted, authVars, rbacVars, configVars, processVars, documentVars, slowVars, appVars, auditVars>>

\* await store.increment(key)
ThrottleIncrement(i) ==
    /\ treq[i].pc = "increment"
    /\ LET key == KeyOfSlot(i)
           client == StoreIncrement(counters[key], WindowMs(treq[i].policy))
           opened == IF client.resetTime # counters[key].resetTime
                     THEN window[key] + 1 ELSE window[key]
       IN  /\ counters' = [counters EXCEPT ![key] = client]
           /\ window' = [window EXCEPT ![key] = opened]
           /\ treq' = [treq EXCEPT ![i].pc = "decide",
                                   ![i].totalHits = HitsSeen(client),
                                   ![i].window = opened]
    /\ UNCHANGED <<admitted, mounted, authVars, rbacVars, configVars, processVars, documentVars, slowVars, appVars, auditVars>>

\* the middleware after the increment: the 429 handler, or next() after the delay
ThrottleDecide(i) ==
    /\ treq[i].pc = "decide"
    /\ LET key == KeyOfSlot(i)
           rejected == Exceeded(treq[i].policy, treq[i].totalHits)
       IN  /\ treq' = [treq EXCEPT ![i].pc = "done",
                                   ![i].statusCode = IF rejected THEN 429 ELSE 200,
                                   ![i].delay = DelayOf(treq[i].policy, treq[i].totalHits)]
           /\ admitted' = IF rejected THEN admitted
                          ELSE [admitted EXCEPT ![key][treq[i].window] = @ + 1]
    /\ UNCHANGED <<counters, window, mounted, authVars, rbacVars, configVars, processVars, documentVars, slowVars, appVars, auditVars>>

ThrottleFinish(i) ==
    /\ treq[i].pc = "done"
    /\ treq' = [treq EXCEPT ![i] = IdleThrottled]
    /\ UNCHANGED <<counters, window, admitted, mounted, authVars, rbacVars, configVars, processVars, documentVars, slowVars, appVars, auditVars>>

\* the clock of the throttle middlewares
ThrottleTick ==
    /\ now < MaxThrottleTicks
    /\ now' = now + 1
    /\ UNCHANGED <<redisOpen, redisStore, tokenBlacklist, users, roles, issued, req, adminOps,
                   lastChange, throttleVars, rbacVars, configVars, processVars, documentVars, slowVars, appVars, auditVars>>

ThrottleInit(mounts) ==
    /\ mounted \in mounts
    /\ counters = [k \in Keys |-> [totalHits |-> 0, resetTime |-> 0]]
    /\ treq = [i \in Slots |-> IdleThrottled]
    /\ window = [k \in Keys |-> 0]
    /\ admitted = [k \in Keys |-> [w \in 1..(MaxThrottleTicks + 1) |-> 0]]

-----------------------------------------------------------------------------
(* Access control: backend/middlewares/index.js *)

MaxActorId == 2

\* the value of a missing property
Undefined == -1

ROLE_HIERARCHY == [HOUSEKEEPING |-> 0, RECEPTIONIST |-> 1, MANAGER |-> 2, ADMIN |-> 3]

\* ROLE_HIERARCHY[name]
LevelOf(name) == IF name \in DOMAIN ROLE_HIERARCHY THEN ROLE_HIERARCHY[name] ELSE Undefined

\* a > b where the code has a >= b
StrictlyGreater(a, b) == a # Undefined /\ b # Undefined /\ a > b

\* a >= b and a < b of JavaScript on levels: false as soon as one side is undefined
GreaterOrEqual(a, b) == a # Undefined /\ b # Undefined /\ a >= b

\* a <= b where the code has a < b
LessOrEqual(a, b) == a # Undefined /\ b # Undefined /\ a <= b

LessThan(a, b) == a # Undefined /\ b # Undefined /\ a < b

DEFAULT_ROLE_PERMISSIONS ==
    [ADMIN |-> {"manage_users", "manage_roles", "manage_rooms", "manage_reservations",
                "manage_payments", "manage_housekeeping", "view_reports", "manage_guests",
                "check_in", "check_out", "assign_tasks", "view_audit_logs"},
     MANAGER |-> {"manage_rooms", "manage_reservations", "manage_payments",
                  "manage_housekeeping", "view_reports", "manage_guests", "check_in",
                  "check_out", "assign_tasks"},
     RECEPTIONIST |-> {"manage_reservations", "manage_guests", "check_in", "check_out",
                       "view_reports"},
     HOUSEKEEPING |-> {"manage_housekeeping", "assign_tasks"}]

\* DEFAULT_ROLE_PERMISSIONS[userRoleName] || []
DefaultPermissions(name) ==
    IF name \in DOMAIN DEFAULT_ROLE_PERMISSIONS THEN DEFAULT_ROLE_PERMISSIONS[name] ELSE {}

\* the users an access-control middleware may find on req.user: nobody, a user whose role
\* reference populated to nothing, and users of each role with the permissions stored on it
NoActor == [present |-> FALSE, id |-> 0, hasRole |-> FALSE, name |-> "", permissions |-> {}]

StoredPermissionSets == {{}, {"manage_payments"}, {"check_in", "view_audit_logs"}}

Actors ==
    {NoActor}
      \cup {[present |-> TRUE, id |-> i, hasRole |-> FALSE, name |-> "", permissions |-> {}] :
               i \in 1..MaxActorId}
      \cup {[present |-> TRUE, id |-> i, hasRole |-> TRUE, name |-> n, permissions |-> ps] :
               i \in 1..MaxActorId, n \in DOMAIN ROLE_HIERARCHY, ps \in StoredPermissionSets}

\* req.user.role?.name, "" standing for undefined
RoleNameOf(user) == IF user.hasRole THEN user.name ELSE ""

\* the defaults of the role alone, the stored permissions left out
AllPermissionsWithoutStored(user) == DefaultPermissions(RoleNameOf(user))

\* new Set([...defaultPermissions, ...dbPermissions])
AllPermissions(user) ==
    DefaultPermissions(RoleNameOf(user)) \cup (IF user.hasRole THEN user.permissions ELSE {})

\* array.join(', ')
RECURSIVE Join(_)
Join(list) ==
    IF Len(list) = 0 THEN ""
    ELSE IF Len(list) = 1 THEN list[1]
    ELSE list[1] \o ", " \o Join(Tail(list))

\* the argument lists the permission gates are built with
RequiredLists ==
    {<<>>, <<"manage_payments">>, <<"manage_reservations", "check_in">>,
     <<"view_audit_logs", "manage_payments">>}

\* what req.body.roleName and req.body.role may hold; "" stands for an absent field
RequestedNames == {"", "MANAGER", "manager", "ADMIN", "RECEPTIONIST", "HOUSEKEEPING", "guest"}

RoleToUpperCase(s) == IF s = "manager" THEN "MANAGER" ELSE IF s = "guest" THEN "GUEST" ELSE s

ErrAuthRequired == AppError("Authentication required.", 401)

ErrRoleLevel == AppError("Role level could not be determined.", 403)

ErrInvalidRole == AppError("Invalid role specified.", 400)

ErrEscalation == AppError("You cannot assign a role equal to or higher than your own.", 403)

NoFilter == [field |-> "", owner |-> 0]

\* req.params of a route without :id and without :userId
NoParams == [id |-> Undefined, userId |-> Undefined]

\* the route parameters a request may carry
RouteParams == [id : {Undefined} \cup 1..MaxActorId, userId : {Undefined} \cup 1..MaxActorId]

\* the own properties of req.body besides roleName and role
OtherBodyFields == {{}, {"accountStatus"}}

\* no X-User-Role and no X-User-Permissions header on the response
NoHeaders == [sent |-> FALSE, role |-> "", permissions |-> {}]

IdleRbac ==
    [pc |-> "idle", gate |-> "", user |-> NoActor, roleName |-> "", role |-> "",
     args |-> <<>>, error |-> NoError, userPermissions |-> {}, hasPermissions |-> FALSE,
     ownershipFilter |-> NoFilter, params |-> NoParams, fields |-> {},
     headers |-> NoHeaders]

\* a request reaches an access-control middleware with req.user, req.params and req.body
\* as given
RbacArrive(user, roleName, role, params, fields) ==
    /\ rbac.pc = "idle"
    /\ rbac' = [IdleRbac EXCEPT !.pc = "ready", !.user = user, !.roleName = roleName,
                                !.role = role, !.params = params, !.fields = fields]
    /\ UNCHANGED <<authVars, throttleVars, configVars, processVars, documentVars, slowVars, appVars, auditVars>>

\* the outcome of a middleware: next(err) or next()
RbacDone(gate, args, error) ==
    [rbac EXCEPT !.pc = "done", !.gate = gate, !.args = args, !.error = error]

\* requiredPermissions.some(perm => allPermissions.has(perm))
HasAny(requiredPermissions, allPermissions) ==
    \E k \in 1..Len(requiredPermissions) : requiredPermissions[k] \in allPermissions

\* only the first required permission looked at
HasFirst(requiredPermissions, allPermissions) ==
    Len(requiredPermissions) = 0 \/ requiredPermissions[1] \in allPermissions

\* requiredPermissions.every(perm => allPermissions.has(perm))
HasAll(requiredPermissions, allPermissions) ==
    \A k \in 1..Len(requiredPermissions) : requiredPermissions[k] \in allPermissions

ErrMissing(requiredPermissions, allPermissions) ==
    AppError("Insufficient permissions. Missing: "
                \o Join(SelectSeq(requiredPermissions, LAMBDA perm : perm \notin allPermissions)),
             403)

ErrNeedOne(requiredPermissions) ==
    AppError("You need at least one of the following permissions: "
                \o Join(requiredPermissions), 403)

ErrAuthority(minimumRole) ==
    AppError("Insufficient authority. Minimum required role: " \o minimumRole, 403)

requirePermission(requiredPermissions) ==
    /\ rbac.pc = "ready"
    /\ rbac' =
         IF ~rbac.user.present
         THEN RbacDone("requirePermission", requiredPermissions, ErrAuthRequired)
         ELSE LET allPermissions == AllPermissions(rbac.user)
              IN  IF ~HasAll(requiredPermissions, allPermissions)
                  THEN RbacDone("requirePermission", requiredPermissions,
                                ErrMissing(requiredPermissions, allPermissions))
                  ELSE [RbacDone("requirePermission", requiredPermissions, NoError)
                           EXCEPT !.userPermissions = allPermissions,
                                  !.hasPermissions = TRUE]
    /\ UNCHANGED <<authVars, throttleVars, configVars, processVars, documentVars, slowVars, appVars, auditVars>>

requireAnyPermission(requiredPermissions) ==
    /\ rbac.pc = "ready"
    /\ rbac' =
         IF ~rbac.user.present
         THEN RbacDone("requireAnyPermission", requiredPermissions, ErrAuthRequired)
         ELSE LET allPermissions == AllPermissions(rbac.user)
              IN  IF ~HasAny(requiredPermissions, allPermissions)
                  THEN RbacDone("requireAnyPermission", requiredPermissions,
                                ErrNeedOne(requiredPermissions))
                  ELSE [RbacDone("requireAnyPermission", requiredPermissions, NoError)
                           EXCEPT !.userPermissions = allPermissions,
                                  !.hasPermissions = TRUE]
    /\ UNCHANGED <<authVars, throttleVars, configVars, processVars, documentVars, slowVars, appVars, auditVars>>

\* the roles a level gate may be built with; OWNER is not in the hierarchy
GateRoles == {"RECEPTIONIST", "MANAGER", "ADMIN", "OWNER"}

requireMinimumRole(minimumRole) ==
    /\ rbac.pc = "ready"
    /\ rbac' =
         IF ~rbac.user.present
         THEN RbacDone("requireMinimumRole", <<minimumRole>>, ErrAuthRequired)
         ELSE LET userLevel == LevelOf(RoleNameOf(rbac.user))
                  requiredLevel == LevelOf(minimumRole)
              IN  IF userLevel = Undefined \/ requiredLevel = Undefined
                  THEN RbacDone("requireMinimumRole", <<minimumRole>>, ErrRoleLevel)
                  ELSE IF LessThan(userLevel, requiredLevel)
                  THEN RbacDone("requireMinimumRole", <<minimumRole>>,
                                ErrAuthority(minimumRole))
                  ELSE RbacDone("requireMinimumRole", <<minimumRole>>, NoError)
    /\ UNCHANGED <<authVars, throttleVars, configVars, processVars, documentVars, slowVars, appVars, auditVars>>

OwnerFields == {"createdBy", "assignedTo"}

checkOwnership(ownerField, bypassRole) ==
    /\ rbac.pc = "ready"
    /\ rbac' =
         IF ~rbac.user.present
         THEN RbacDone("checkOwnership", <<ownerField, bypassRole>>, ErrAuthRequired)
         ELSE IF GreaterOrEqual(LevelOf(RoleNameOf(rbac.user)), LevelOf(bypassRole))
         THEN RbacDone("checkOwnership", <<ownerField, bypassRole>>, NoError)
         ELSE [RbacDone("checkOwnership", <<ownerField, bypassRole>>, NoError)
                  EXCEPT !.ownershipFilter = [field |-> ownerField, owner |-> rbac.user.id]]
    /\ UNCHANGED <<authVars, throttleVars, configVars, processVars, documentVars, slowVars, appVars, auditVars>>

\* req.body.roleName || req.body.role
RequestedRoleName(body) == IF body.roleName # "" THEN body.roleName ELSE body.role

preventPrivilegeEscalation ==
    /\ rbac.pc = "ready"
    /\ rbac' =
         IF ~rbac.user.present
         THEN RbacDone("preventPrivilegeEscalation", <<>>, ErrAuthRequired)
         ELSE LET requestedRoleName == RequestedRoleName(rbac)
                  userLevel == LevelOf(RoleNameOf(rbac.user))
                  requestedLevel == LevelOf(RoleToUpperCase(requestedRoleName))
              IN  IF requestedRoleName = ""
                  THEN RbacDone("preventPrivilegeEscalation", <<>>, NoError)
                  ELSE IF requestedLevel = Undefined
                  THEN RbacDone("preventPrivilegeEscalation", <<>>, ErrInvalidRole)
                  ELSE IF GreaterOrEqual(requestedLevel, userLevel)
                  THEN RbacDone("preventPrivilegeEscalation", <<>>, ErrEscalation)
                  ELSE RbacDone("preventPrivilegeEscalation", <<>>, NoError)
    /\ UNCHANGED <<authVars, throttleVars, configVars, processVars, documentVars, slowVars, appVars, auditVars>>

\* req.params.id with nothing after the ||
TargetUserIdFromIdOnly(params) == params.id

\* req.params.id || req.params.userId
TargetUserId(params) == IF params.id # Undefined THEN params.id ELSE params.userId

\* req.body.hasOwnProperty(field)
BodyHasOwnProperty(request, field) ==
    \/ field = "roleName" /\ request.roleName # ""
    \/ field = "role" /\ request.role # ""
    \/ field \in request.fields

\* the lists preventSelfModification may be built with; the first is the default
ProtectedFieldLists == {<<"role", "accountStatus">>, <<"accountStatus">>, <<>>}

ErrSelfModification(blockedFields) ==
    AppError("You cannot modify your own " \o Join(blockedFields) \o ".", 403)

preventSelfModification(protectedFields) ==
    /\ rbac.pc = "ready"
    /\ rbac' =
         IF ~rbac.user.present
         THEN RbacDone("preventSelfModification", protectedFields, ErrAuthRequired)
         ELSE LET targetUserId == TargetUserId(rbac.params)
                  blockedFields ==
                      SelectSeq(protectedFields, LAMBDA field : BodyHasOwnProperty(rbac, field))
              IN  IF targetUserId # Undefined /\ targetUserId = rbac.user.id
                     /\ Len(blockedFields) > 0
                  THEN RbacDone("preventSelfModification", protectedFields,
                                ErrSelfModification(blockedFields))
                  ELSE RbacDone("preventSelfModification", protectedFields, NoError)
    /\ UNCHANGED <<authVars, throttleVars, configVars, processVars, documentVars, slowVars, appVars, auditVars>>

\* exposePermissions sets the two headers when req.user is there, and always calls next()
exposePermissions ==
    /\ rbac.pc = "ready"
    /\ rbac' =
         IF rbac.user.present
         THEN LET userRoleName == RoleNameOf(rbac.user)
                  permissions == DefaultPermissions(userRoleName)
              IN  [RbacDone("exposePermissions", <<>>, NoError)
                      EXCEPT !.headers = [sent |-> TRUE, role |-> userRoleName,
                                          permissions |-> permissions]]
         ELSE RbacDone("exposePermissions", <<>>, NoError)
    /\ UNCHANGED <<authVars, throttleVars, configVars, processVars, documentVars, slowVars, appVars, auditVars>>

\* the response is sent
RbacFinish ==
    /\ rbac.pc = "done"
    /\ rbac' = IdleRbac
    /\ UNCHANGED <<authVars, throttleVars, configVars, processVars, documentVars, slowVars, appVars, auditVars>>

-----------------------------------------------------------------------------
(* Progressive delay: speedLimiter and authSpeedLimiter *)

MaxSlowHits == 55

SpeedDelayAfter == 30
SpeedDelayStepMs == 100
SpeedMaxDelayMs == 5000

SlowDowns == {"speedLimiter", "authSpeedLimiter"}

DelayAfterOf(limiter) ==
    IF limiter = "speedLimiter" THEN SpeedDelayAfter ELSE AuthSlowDelayAfter

MaxDelayMsOf(limiter) ==
    IF limiter = "speedLimiter" THEN SpeedMaxDelayMs ELSE AuthSlowMaxDelayMs

\* the delayMs option: (hits) => hits * 100 and (hits) => hits * 500
delayMs(limiter, hits) ==
    IF limiter = "speedLimiter" THEN hits * SpeedDelayStepMs ELSE hits * AuthSlowDelayStepMs

\* the delay with maxDelayMs left out
SlowDownDelayUncapped(limiter, used) ==
    IF used > DelayAfterOf(limiter) THEN delayMs(limiter, used) ELSE 0

\* the delay slowDown puts on the request that makes the key's hit count `used`
SlowDownDelay(limiter, used) ==
    IF limiter = "authSpeedLimiter"
    THEN DelayOf("auth_slow", used)
    ELSE IF used > DelayAfterOf(limiter)
    THEN IF delayMs(limiter, used) > MaxDelayMsOf(limiter)
         THEN MaxDelayMsOf(limiter)
         ELSE delayMs(limiter, used)
    ELSE 0

IdleSlow == [limiter |-> "speedLimiter", used |-> 0, delay |-> 0, passed |-> 0]

\* a request of the key: the store counts it, the middleware waits `delay` and calls next()
SlowDownRequest ==
    /\ slow.used < MaxSlowHits
    /\ slow' = [slow EXCEPT !.used = slow.used + 1,
                            !.delay = SlowDownDelay(slow.limiter, slow.used + 1),
                            !.passed = slow.passed + 1]
    /\ UNCHANGED <<authVars, throttleVars, rbacVars, configVars, processVars, documentVars, appVars, auditVars>>

\* windowMs went by: the store drops the key
SlowDownWindowElapsed ==
    /\ slow.used > 0
    /\ slow' = [slow EXCEPT !.used = 0, !.delay = 0, !.passed = 0]
    /\ UNCHANGED <<authVars, throttleVars, rbacVars, configVars, processVars, documentVars, appVars, auditVars>>

-----------------------------------------------------------------------------
(* The middleware stack of createApp *)

MaxApiRequests == 7

GlobalMax == 200

\* the stack with the routers mounted ahead of the two limiters
ApiStackRoutesFirst ==
    <<"requestId", "requestTimer", "helmetConfig", "additionalSecurityHeaders",
      "corsMiddleware", "httpLogger", "apiAuditLogger", "json", "urlencoded",
      "cookieParser", "mongoSanitizer", "hppProtection", "sanitizeBody",
      "suspiciousPatternDetector", "compression", "routes", "globalLimiter",
      "speedLimiter", "validateContentType">>

\* createApp: what a request to a path under /api passes through, in the order of the
\* app.use calls; "routes" is step 12, where the routers (and protect in them) are mounted
ApiStack ==
    <<"requestId", "requestTimer", "helmetConfig", "additionalSecurityHeaders",
      "corsMiddleware", "httpLogger", "apiAuditLogger", "json", "urlencoded",
      "cookieParser", "mongoSanitizer", "hppProtection", "sanitizeBody",
      "suspiciousPatternDetector", "compression", "globalLimiter", "speedLimiter",
      "validateContentType", "routes">>

\* pos: the middleware the request is at (0: no request); globalHits and speedHits: the
\* counters of the caller's IP in the stores of globalLimiter and speedLimiter
IdlePipe ==
    [pos |-> 0, counted |-> FALSE, slowed |-> FALSE, verified |-> FALSE, delay |-> 0,
     statusCode |-> 0, globalHits |-> 0, speedHits |-> 0]

\* a request for a path under /api arrives from an address that is not skipped
PipeArrive ==
    /\ pipe.pos = 0
    /\ pipe.globalHits < MaxApiRequests
    /\ pipe' = [pipe EXCEPT !.pos = 1]
    /\ UNCHANGED <<authVars, throttleVars, rbacVars, configVars, processVars, documentVars, slowVars, auditVars>>

\* the middleware the request is at runs and calls next(), or answers
PipeNext ==
    /\ pipe.pos \in 1..Len(ApiStack)
    /\ LET mw == ApiStack[pipe.pos]
       IN  \/ /\ mw = "globalLimiter"
              /\ pipe' = IF pipe.globalHits + 1 > GlobalMax
                         THEN [pipe EXCEPT !.globalHits = @ + 1, !.counted = TRUE,
                                           !.statusCode = 429,
                                           !.pos = Len(ApiStack) + 1]
                         ELSE [pipe EXCEPT !.globalHits = @ + 1, !.counted = TRUE,
                                           !.pos = @ + 1]
           \/ /\ mw = "speedLimiter"
              /\ pipe' = [pipe EXCEPT !.speedHits = @ + 1, !.slowed = TRUE,
                                      !.delay = SlowDownDelay("speedLimiter",
                                                              pipe.speedHits + 1),
                                      !.pos = @ + 1]
           \/ /\ mw = "routes"
              /\ \E verified \in BOOLEAN :
                    pipe' = [pipe EXCEPT !.verified = verified, !.pos = @ + 1]
           \/ /\ mw \notin {"globalLimiter", "speedLimiter", "routes"}
              /\ pipe' = [pipe EXCEPT !.pos = @ + 1]
    /\ UNCHANGED <<authVars, throttleVars, rbacVars, configVars, processVars, documentVars, slowVars, auditVars>>

\* the response is sent; the counters stay in the stores
PipeFinish ==
    /\ pipe.pos = Len(ApiStack) + 1
    /\ pipe' = [IdlePipe EXCEPT !.globalHits = pipe.globalHits,
                                !.speedHits = pipe.speedHits]
    /\ UNCHANGED <<authVars, throttleVars, rbacVars, configVars, processVars, documentVars, slowVars, auditVars>>

-----------------------------------------------------------------------------
(* Audit sink: createSendToken step by step, restrictTo, the writes nobody awaits *)

MaxConcurrentIssues == 2
MaxEmissions == 1

IssueSlots == 1..MaxConcurrentIssues

NoResponse ==
    [statusCode |-> 0, status |-> "", user |-> 0, accessToken |-> NoToken, expiresIn |-> 0]

IdleIssue ==
    [pc |-> "idle", user |-> 0, access |-> NoToken, refresh |-> NoToken, audit |-> "none",
     res |-> NoResponse]

\* no write started by logAction(...).catch(console.error) is in flight, none has ended
NoEmissions == [pending |-> 0, written |-> 0, failed |-> 0]

\* createSendToken up to its first await: both credentials signed, the cookies set
IssueBegin(i, u) ==
    /\ iss[i].pc = "idle"
    /\ users[u].exists
    /\ LET k == Len(issued) + 1
           token == signToken(k, u, users[u].role)
           refreshToken == signRefreshToken(k, u)
       IN  /\ issued' = Append(issued,
                   [access |-> token, refresh |-> refreshToken, at |-> NowMs])
           /\ iss' = [iss EXCEPT ![i] = [IdleIssue EXCEPT !.pc = "update", !.user = u,
                                             !.access = token, !.refresh = refreshToken]]
    /\ UNCHANGED <<now, redisOpen, redisStore, tokenBlacklist, users, roles, req, adminOps, lastChange, throttleVars, rbacVars, configVars, processVars, documentVars, slowVars, appVars, sink>>

\* await User.findByIdAndUpdate: one update of one document at the store
IssueUpdate(i) ==
    /\ iss[i].pc = "update"
    /\ users' = findByIdAndUpdate(iss[i].user, iss[i].refresh.jti)
    /\ iss' = [iss EXCEPT ![i].pc = "audit"]
    /\ UNCHANGED <<now, redisOpen, redisStore, tokenBlacklist, roles, issued, req, adminOps, lastChange, throttleVars, rbacVars, configVars, processVars, documentVars, slowVars, appVars, sink>>

\* await AuditLog.logAction settles; the rest of createSendToken runs and answers
IssueAudit(i, outcome) ==
    /\ iss[i].pc = "audit"
    /\ iss' = [iss EXCEPT ![i] =
                 IF logAction(outcome) = "throw"
                 THEN [@ EXCEPT !.pc = "thrown", !.audit = "throw"]
                 ELSE [@ EXCEPT !.pc = "sent", !.audit = logAction(outcome),
                                !.res = [statusCode |-> 200, status |-> "success",
                                         user |-> iss[i].user,
                                         accessToken |-> iss[i].access,
                                         expiresIn |-> env.JWT_EXPIRES_IN]]]
    /\ UNCHANGED <<authVars, throttleVars, rbacVars, configVars, processVars, documentVars, slowVars, appVars, sink>>

\* the call of createSendToken is over
IssueFinish(i) ==
    /\ iss[i].pc \in {"sent", "thrown"}
    /\ iss' = [iss EXCEPT ![i] = IdleIssue]
    /\ UNCHANGED <<authVars, throttleVars, rbacVars, configVars, processVars, documentVars, slowVars, appVars, sink>>

ErrRoleUndetermined ==
    AppError("Your role could not be determined. Please contact the administrator.", 403)

ErrRoleNotAllowed(allowedRoles) ==
    AppError("You do not have permission to perform this action. Required role(s): "
                 \o Join(allowedRoles), 403)

AllowedRoleLists == {<<"ADMIN">>, <<"ADMIN", "MANAGER">>}

\* the requests restrictTo is modelled on: no user, a user without role, two roles
RestrictedActors ==
    {a \in Actors : /\ a.permissions = {}
                    /\ a.id \in {0, 1}
                    /\ a.name \in {"", "RECEPTIONIST", "ADMIN"}}

\* restrictTo(...allowedRoles): a refusal starts an audit write and answers without it
restrictTo(allowedRoles) ==
    /\ rbac.pc = "ready"
    /\ LET userRoleName == RoleNameOf(rbac.user)
           refused == /\ rbac.user.present
                      /\ userRoleName # ""
                      /\ \A n \in 1..Len(allowedRoles) : allowedRoles[n] # userRoleName
       IN  /\ refused => sink.pending + sink.written + sink.failed < MaxEmissions
           /\ rbac' = IF ~rbac.user.present
                      THEN RbacDone("restrictTo", allowedRoles, ErrAuthRequired)
                      ELSE IF userRoleName = ""
                      THEN RbacDone("restrictTo", allowedRoles, ErrRoleUndetermined)
                      ELSE IF refused
                      THEN RbacDone("restrictTo", allowedRoles,
                                    ErrRoleNotAllowed(allowedRoles))
                      ELSE RbacDone("restrictTo", allowedRoles, NoError)
           /\ sink' = IF refused THEN [sink EXCEPT !.pending = @ + 1] ELSE sink
    /\ UNCHANGED <<authVars, throttleVars, configVars, processVars, documentVars, slowVars, appVars, iss>>

\* a write started with logAction(...).catch(console.error) settles
SinkSettle(outcome) ==
    /\ sink.pending > 0
    /\ sink' = IF logAction(outcome) = "entry"
               THEN [sink EXCEPT !.pending = @ - 1, !.written = @ + 1]
               ELSE [sink EXCEPT !.pending = @ - 1, !.failed = @ + 1]
    /\ UNCHANGED <<authVars, throttleVars, rbacVars, configVars, processVars, documentVars, slowVars, appVars, iss>>

-----------------------------------------------------------------------------
(* connectDB: config/db.js *)

MaxRetries == 5

DefaultRetries == 5
DefaultDelayMs == 5000
JitterRangeMs == 1000

\* the values connectDB is called with: the defaults, and fewer retries or a shorter delay
RetryCounts == 1..MaxRetries

Delays == {DefaultDelayMs, DefaultDelayMs \div 5}

\* Math.random() * 1000 at its two ends
Jitters == {0, JitterRangeMs - 1}

\* a backoff that grows by the delay with every attempt
BackoffLinear(delay, attempt, jitter) == delay * attempt + jitter

\* delay * Math.pow(2, attempt - 1) + Math.random() * 1000
Backoff(delay, attempt, jitter) == delay * 2 ^ (attempt - 1) + jitter

IdleDb ==
    [pc |-> "idle", retries |-> 0, delay |-> 0, attempt |-> 0, failures |-> 0,
     waits |-> <<>>, connected |-> FALSE, pinged |-> FALSE, returned |-> "nothing",
     exitCode |-> Undefined]

\* while (attempt < retries) { attempt++; ... }; past the loop the function returns undefined
LoopHead(d) ==
    IF d.attempt < d.retries
    THEN [d EXCEPT !.attempt = @ + 1, !.pc = "connect"]
    ELSE [d EXCEPT !.pc = "returned", !.returned = "undefined"]

\* the catch block: process.exit(1) at the last attempt, the backoff before another one
ConnectCatch(d, jitter) ==
    IF d.attempt = d.retries
    THEN [d EXCEPT !.failures = @ + 1, !.pc = "exited", !.exitCode = 1]
    ELSE [d EXCEPT !.failures = @ + 1, !.pc = "backoff",
                   !.waits = Append(@, Backoff(d.delay, d.attempt, jitter))]

\* bootstrap calls connectDB; the function runs to its first await
connectDB(retries, delay) ==
    /\ db.pc = "idle"
    /\ db' = LoopHead([IdleDb EXCEPT !.retries = retries, !.delay = delay])
    /\ UNCHANGED <<authVars, throttleVars, rbacVars, configVars, slowVars, appVars,
                   auditVars, proc, documentVars>>

\* await mongoose.connect(uri, options)
MongooseConnect(ok, jitter) ==
    /\ db.pc = "connect"
    /\ db' = IF ok THEN [db EXCEPT !.pc = "ping", !.connected = TRUE]
              ELSE ConnectCatch(db, jitter)
    /\ UNCHANGED <<authVars, throttleVars, rbacVars, configVars, slowVars, appVars,
                   auditVars, proc, documentVars>>

\* await mongoose.connection.db.admin().ping(), then return mongoose.connection
AdminPing(ok, jitter) ==
    /\ db.pc = "ping"
    /\ db' = IF ok THEN [db EXCEPT !.pc = "returned", !.pinged = TRUE,
                                    !.returned = "connection"]
              ELSE ConnectCatch(db, jitter)
    /\ UNCHANGED <<authVars, throttleVars, rbacVars, configVars, slowVars, appVars,
                   auditVars, proc, documentVars>>

\* the setTimeout of the backoff fires
BackoffElapsed ==
    /\ db.pc = "backoff"
    /\ db' = LoopHead(db)
    /\ UNCHANGED <<authVars, throttleVars, rbacVars, configVars, slowVars, appVars,
                   auditVars, proc, documentVars>>

-----------------------------------------------------------------------------
(* Shutdown: setupGracefulShutdown of server.js, setupProcessErrorHandlers of *)
(* errorHandler.js, disconnectDB of config/db.js                            *)

MaxShutdownTicks == 4
MaxSignals == 2

ShutdownTimeoutMs == 15000
ShutdownTickMs == 5000

\* the hard kill timeout in ticks of the shutdown clock
ShutdownTimeoutTicks == ShutdownTimeoutMs \div ShutdownTickMs

Signals == {"SIGTERM", "SIGINT", "SIGHUP"}

\* the process with its server listening and its database connection open
IdleProc ==
    [server |-> "listening", stage |-> "none", isShuttingDown |-> FALSE, readyState |-> 1,
     exitCode |-> Undefined, elapsed |-> 0, runs |-> 0, ignored |-> 0, failed |-> FALSE,
     exitOnClose |-> FALSE, closeError |-> FALSE]

\* a shutdown that does not look at isShuttingDown
ShutdownNotGuarded(p) == FALSE

\* if (isShuttingDown) { ...; return; }
AlreadyShuttingDown(p) == p.isShuttingDown

\* server.close(): a listening server stops accepting connections; on a server that is not
\* listening any more the callback will get ERR_SERVER_NOT_RUNNING
ServerCloseCall(p) ==
    IF p.server = "listening"
    THEN [p EXCEPT !.server = "closing"]
    ELSE [p EXCEPT !.closeError = TRUE]

\* process.on(signal): shutdown(signal) up to its first await; on SIGTERM the listener of
\* setupProcessErrorHandlers runs after it and calls server.close() once more, with a
\* callback that only logs
shutdown(signal) ==
    /\ proc.exitCode = Undefined
    /\ AlreadyShuttingDown(proc) => proc.ignored < MaxSignals
    /\ proc' = IF AlreadyShuttingDown(proc)
                THEN [proc EXCEPT !.ignored = @ + 1]
                ELSE [ServerCloseCall(proc) EXCEPT !.isShuttingDown = TRUE,
                                                    !.runs = @ + 1,
                                                    !.elapsed = 0,
                                                    !.stage = "awaitClose"]
    /\ UNCHANGED <<authVars, throttleVars, rbacVars, configVars, slowVars, appVars,
                   auditVars, db, documentVars>>

\* the server emits 'close': the callback of the unhandledRejection handler exits with 1;
\* otherwise the promise of shutdown settles, rejected when the callback got an error
ServerClosed ==
    /\ proc.exitCode = Undefined
    /\ proc.server = "closing"
    /\ proc' = IF proc.exitOnClose
                THEN [proc EXCEPT !.server = "closed", !.exitCode = 1]
                ELSE IF proc.stage = "awaitClose"
                THEN IF proc.closeError
                     THEN [proc EXCEPT !.server = "closed", !.failed = TRUE, !.exitCode = 1]
                     ELSE [proc EXCEPT !.server = "closed", !.stage = "disconnect"]
                ELSE [proc EXCEPT !.server = "closed"]
    /\ UNCHANGED <<authVars, throttleVars, rbacVars, configVars, slowVars, appVars,
                   auditVars, db, documentVars>>

\* what mongoose.connection.close does: it closes, it closes only when forced, or it
\* throws both times
CloseOutcomes == {"closed", "forced", "failed"}

\* await disconnectDB(): nothing to do at readyState 0; a second failure reaches the catch
\* block of shutdown
disconnectDB(outcome) ==
    /\ proc.exitCode = Undefined
    /\ proc.stage = "disconnect"
    /\ proc' = IF proc.readyState = 0
                THEN [proc EXCEPT !.stage = "flush"]
                ELSE IF outcome = "failed"
                THEN [proc EXCEPT !.failed = TRUE, !.exitCode = 1]
                ELSE [proc EXCEPT !.readyState = 0, !.stage = "flush"]
    /\ UNCHANGED <<authVars, throttleVars, rbacVars, configVars, slowVars, appVars,
                   auditVars, db, documentVars>>

\* the 500 ms of step 3 are over before the hard kill timeout: clearTimeout,
\* process.exit(0)
FlushDone ==
    /\ proc.exitCode = Undefined
    /\ proc.stage = "flush"
    /\ proc.elapsed < ShutdownTimeoutTicks
    /\ proc' = [proc EXCEPT !.exitCode = 0]
    /\ UNCHANGED <<authVars, throttleVars, rbacVars, configVars, slowVars, appVars,
                   auditVars, db, documentVars>>

\* forceKillTimeout fires: process.exit(1)
forceKillTimeout ==
    /\ proc.exitCode = Undefined
    /\ proc.isShuttingDown
    /\ proc.elapsed >= ShutdownTimeoutTicks
    /\ proc' = [proc EXCEPT !.exitCode = 1]
    /\ UNCHANGED <<authVars, throttleVars, rbacVars, configVars, slowVars, appVars,
                   auditVars, db, documentVars>>

\* time passes during the shutdown
ShutdownTick ==
    /\ proc.exitCode = Undefined
    /\ proc.isShuttingDown
    /\ proc.elapsed < MaxShutdownTicks
    /\ proc' = [proc EXCEPT !.elapsed = @ + 1]
    /\ UNCHANGED <<authVars, throttleVars, rbacVars, configVars, slowVars, appVars,
                   auditVars, db, documentVars>>

\* process.on('unhandledRejection'): server.close(() => process.exit(1)); on a server
\* that has closed already the callback runs at once
unhandledRejection ==
    /\ proc.exitCode = Undefined
    /\ ~proc.exitOnClose
    /\ proc' = IF proc.server = "closed"
                THEN [proc EXCEPT !.exitOnClose = TRUE, !.failed = TRUE, !.exitCode = 1]
                ELSE [proc EXCEPT !.exitOnClose = TRUE, !.failed = TRUE,
                                  !.server = "closing"]
    /\ UNCHANGED <<authVars, throttleVars, rbacVars, configVars, slowVars, appVars,
                   auditVars, db, documentVars>>

\* the connection to MongoDB is lost: readyState 0
ConnectionLost ==
    /\ proc.exitCode = Undefined
    /\ proc.readyState = 1
    /\ proc' = [proc EXCEPT !.readyState = 0]
    /\ UNCHANGED <<authVars, throttleVars, rbacVars, configVars, slowVars, appVars,
                   auditVars, db, documentVars>>

-----------------------------------------------------------------------------
(* The number generators: pre('save') of the Reservation and Payment schemas *)

MaxConcurrentSaves == 2
MaxDocuments == 3

\* the prefixes of the two schemas
Prefixes == {"RES", "PAY"}

\* year, month and day of new Date(), two digits each
Today == "261104"

\* String(n) for the counts of the model
DecimalString(n) ==
    CASE n = 0 -> "0" [] n = 1 -> "1" [] n = 2 -> "2" [] n = 3 -> "3" [] n = 4 -> "4"
      [] n = 5 -> "5" [] n = 6 -> "6" [] n = 7 -> "7" [] n = 8 -> "8" [] OTHER -> "9"

\* string.padStart(targetLength, padString)
RECURSIVE PadStart(_, _, _)
PadStart(string, targetLength, padString) ==
    IF Len(string) >= targetLength THEN string
    ELSE PadStart(padString \o string, targetLength, padString)

\* `${prefix}${year}${month}${day}${sequence}` with sequence = String(count + 1) padded
GeneratedNumber(prefix, count) ==
    prefix \o Today \o PadStart(DecimalString(count + 1), 4, "0")

SaveSlots == 1..MaxConcurrentSaves

IdleSave == [pc |-> "idle", prefix |-> "RES", number |-> ""]

\* the saves that will still add a document of the schema
SavesUnderWay(prefix) ==
    {i \in SaveSlots : saves[i].pc \in {"count", "insert"} /\ saves[i].prefix = prefix}

\* document.save() of a new document without a number: the hook runs to its await
SaveBegin(i, prefix) ==
    /\ saves[i].pc = "idle"
    /\ Cardinality(coll[prefix]) + Cardinality(SavesUnderWay(prefix)) < MaxDocuments
    /\ saves' = [saves EXCEPT ![i] = [IdleSave EXCEPT !.pc = "count", !.prefix = prefix]]
    /\ UNCHANGED <<authVars, throttleVars, rbacVars, configVars, slowVars, appVars,
                   auditVars, processVars, coll>>

\* await this.constructor.countDocuments({createdAt: today}), then the number is set
SaveCount(i) ==
    /\ saves[i].pc = "count"
    /\ LET count == Cardinality(coll[saves[i].prefix])
       IN  saves' = [saves EXCEPT ![i].pc = "insert",
                                  ![i].number = GeneratedNumber(saves[i].prefix, count)]
    /\ UNCHANGED <<authVars, throttleVars, rbacVars, configVars, slowVars, appVars,
                   auditVars, processVars, coll>>

\* the insert: the unique index on the number rejects a number that is stored already
SaveInsert(i) ==
    /\ saves[i].pc = "insert"
    /\ IF saves[i].number \in coll[saves[i].prefix]
       THEN /\ saves' = [saves EXCEPT ![i].pc = "duplicateKey"]
            /\ coll' = coll
       ELSE /\ saves' = [saves EXCEPT ![i].pc = "saved"]
            /\ coll' = [coll EXCEPT ![saves[i].prefix] = @ \cup {saves[i].number}]
    /\ UNCHANGED <<authVars, throttleVars, rbacVars, configVars, slowVars, appVars,
                   auditVars, processVars>>

\* save() has settled
SaveFinish(i) ==
    /\ saves[i].pc \in {"saved", "duplicateKey"}
    /\ saves' = [saves EXCEPT ![i] = IdleSave]
    /\ UNCHANGED <<authVars, throttleVars, rbacVars, configVars, slowVars, appVars,
                   auditVars, processVars, coll>>

-----------------------------------------------------------------------------
(* Initial states and specifications *)

\* nothing has reached the slow-down middleware, the middleware stack or createSendToken
RestIdle ==
    /\ slow = IdleSlow
    /\ pipe = IdlePipe
    /\ iss = [i \in IssueSlots |-> IdleIssue]
    /\ sink = NoEmissions
    /\ db = IdleDb
    /\ proc = IdleProc
    /\ saves = [i \in SaveSlots |-> IdleSave]
    /\ coll = [prefix \in Prefixes |-> {}]

\* the role each stored user references
RoleOf(u) == IF u = 1 THEN "ADMIN" ELSE "RECEPTIONIST"

\* the first second of the clock; every user stored, with the schema's defaults
Init ==
    /\ now = TicksPerSec
    /\ redisOpen \in BOOLEAN
    /\ redisStore = {}
    /\ tokenBlacklist = {}
    /\ users = [u \in UserIds |->
                  [exists |-> TRUE, accountStatus |-> "ACTIVE", role |-> RoleOf(u),
                   passwordChangedAt |-> NoDate, lastLogin |-> NoDate,
                   refreshTokenJtis |-> <<>>]]
    /\ roles = [r \in RoleNames |-> [isActive |-> TRUE]]
    /\ issued = <<>>
    /\ req = IdleReq
    /\ adminOps = 0
    /\ lastChange = [u \in UserIds |-> NoDate]
    /\ ThrottleInit({{"auth"}})
    /\ rbac = IdleRbac
    /\ env = ProductionEnv
    /\ RestIdle

\* a request passing through protect, and then through logout
Request ==
    \/ \E t \in PresentableTokens : ProtectExtract(t)
    \/ ProtectVerify
    \/ \E failed \in BOOLEAN : ProtectBlacklist(failed)
    \/ \E failed \in BOOLEAN : ProtectLoad(failed)
    \/ Respond
    \/ LogoutBegin
    \/ \E outcome \in SinkOutcomes : LogoutAudit(outcome)

\* a request passing through optionalAuth
OptionalRequest ==
    \/ \E t \in PresentableTokens : OptionalExtract(t)
    \/ OptionalVerify
    \/ \E failed \in BOOLEAN : OptionalLoad(failed)

\* the token service with the revocation backends coming and going
NextRevoke ==
    \/ Request
    \/ OptionalRequest
    \/ \E t \in PresentableTokens : LogoutUnprotected(t)
    \/ \E failed \in BOOLEAN : LogoutSetEx(failed)
    \/ \E u \in UserIds : Len(issued) < MaxIssued /\ createSendToken(u)
    \/ Tick
    \/ RedisFlip

SpecRevoke == Init /\ [][NextRevoke]_vars

\* the token service with the credential store changing under it
Next ==
    \/ Request
    \/ OptionalRequest
    \/ \E failed \in BOOLEAN : LogoutSetEx(failed)
    \/ \E u \in UserIds : Len(issued) < MaxIssuedStore /\ createSendToken(u)
    \/ \E u \in UserIds : ChangePassword(u)
    \/ \E u \in UserIds, status \in AccountStatuses : SetAccountStatus(u, status)
    \/ \E u \in UserIds : DeleteUser(u)
    \/ \E r \in RoleNames, active \in BOOLEAN : SetRoleActive(r, active)
    \/ Tick

Spec == Init /\ [][Next]_vars

\* the token service under each environment the server starts with
InitConfig ==
    /\ now = TicksPerSec
    /\ redisOpen = FALSE
    /\ redisStore = {}
    /\ tokenBlacklist = {}
    /\ users = [u \in UserIds |->
                  [exists |-> TRUE, accountStatus |-> "ACTIVE", role |-> RoleOf(u),
                   passwordChangedAt |-> NoDate, lastLogin |-> NoDate,
                   refreshTokenJtis |-> <<>>]]
    /\ roles = [r \in RoleNames |-> [isActive |-> TRUE]]
    /\ issued = <<>>
    /\ req = IdleReq
    /\ adminOps = 0
    /\ lastChange = [u \in UserIds |-> NoDate]
    /\ ThrottleInit({{"auth"}})
    /\ rbac = IdleRbac
    /\ env \in StartableConfigs
    /\ RestIdle

NextConfig ==
    \/ Request
    \/ OptionalRequest
    \/ \E u \in UserIds : Len(issued) < MaxIssuedStore /\ createSendToken(u)
    \/ Tick

SpecConfig == InitConfig /\ [][NextConfig]_vars

\* the throttle middlewares alone, from the start of the process
InitThrottle ==
    /\ now = 0
    /\ redisOpen = FALSE
    /\ redisStore = {}
    /\ tokenBlacklist = {}
    /\ users = [u \in UserIds |->
                  [exists |-> TRUE, accountStatus |-> "ACTIVE", role |-> RoleOf(u),
                   passwordChangedAt |-> NoDate, lastLogin |-> NoDate,
                   refreshTokenJtis |-> <<>>]]
    /\ roles = [r \in RoleNames |-> [isActive |-> TRUE]]
    /\ issued = <<>>
    /\ req = IdleReq
    /\ adminOps = 0
    /\ lastChange = [u \in UserIds |-> NoDate]
    /\ ThrottleInit({{policy} : policy \in Policies})
    /\ rbac = IdleRbac
    /\ env = ProductionEnv
    /\ RestIdle

NextThrottle ==
    \/ \E i \in Slots, policy \in Policies, ip \in Ips, email \in Emails :
          ThrottleArrive(i, policy, ip, email)
    \/ \E i \in Slots : ThrottleIncrement(i)
    \/ \E i \in Slots : ThrottleDecide(i)
    \/ \E i \in Slots : ThrottleFinish(i)
    \/ ThrottleTick

SpecThrottle == InitThrottle /\ [][NextThrottle]_vars

\* the three policies mounted together, within one window
InitPolicies ==
    /\ now = 0
    /\ redisOpen = FALSE
    /\ redisStore = {}
    /\ tokenBlacklist = {}
    /\ users = [u \in UserIds |->
                  [exists |-> TRUE, accountStatus |-> "ACTIVE", role |-> RoleOf(u),
                   passwordChangedAt |-> NoDate, lastLogin |-> NoDate,
                   refreshTokenJtis |-> <<>>]]
    /\ roles = [r \in RoleNames |-> [isActive |-> TRUE]]
    /\ issued = <<>>
    /\ req = IdleReq
    /\ adminOps = 0
    /\ lastChange = [u \in UserIds |-> NoDate]
    /\ ThrottleInit({Policies})
    /\ rbac = IdleRbac
    /\ env = ProductionEnv
    /\ RestIdle

NextPolicies ==
    \/ \E i \in Slots, policy \in Policies, ip \in Ips, email \in Emails :
          ThrottleArrive(i, policy, ip, email)
    \/ \E i \in Slots : ThrottleIncrement(i)
    \/ \E i \in Slots : ThrottleDecide(i)
    \/ \E i \in Slots : ThrottleFinish(i)

SpecPolicies == InitPolicies /\ [][NextPolicies]_vars

\* the access-control middlewares, one request at a time
InitRbac ==
    /\ now = 0
    /\ redisOpen = FALSE
    /\ redisStore = {}
    /\ tokenBlacklist = {}
    /\ users = [u \in UserIds |->
                  [exists |-> TRUE, accountStatus |-> "ACTIVE", role |-> RoleOf(u),
                   passwordChangedAt |-> NoDate, lastLogin |-> NoDate,
                   refreshTokenJtis |-> <<>>]]
    /\ roles = [r \in RoleNames |-> [isActive |-> TRUE]]
    /\ issued = <<>>
    /\ req = IdleReq
    /\ adminOps = 0
    /\ lastChange = [u \in UserIds |-> NoDate]
    /\ ThrottleInit({{"auth"}})
    /\ rbac = IdleRbac
    /\ env = ProductionEnv
    /\ RestIdle

NextRbac ==
    \/ /\ rbac.pc = "idle"
       /\ \E user \in Actors, roleName \in RequestedNames, role \in {"", "ADMIN"},
             params \in RouteParams, fields \in OtherBodyFields :
             RbacArrive(user, roleName, role, params, fields)
    \/ \E requiredPermissions \in RequiredLists : requirePermission(requiredPermissions)
    \/ \E requiredPermissions \in RequiredLists : requireAnyPermission(requiredPermissions)
    \/ \E minimumRole \in GateRoles : requireMinimumRole(minimumRole)
    \/ \E ownerField \in OwnerFields, bypassRole \in GateRoles :
          checkOwnership(ownerField, bypassRole)
    \/ preventPrivilegeEscalation
    \/ \E protectedFields \in ProtectedFieldLists : preventSelfModification(protectedFields)
    \/ exposePermissions
    \/ RbacFinish

SpecRbac == InitRbac /\ [][NextRbac]_vars

\* one key of either slow-down middleware, from an empty store
InitDelay ==
    /\ now = 0
    /\ redisOpen = FALSE
    /\ redisStore = {}
    /\ tokenBlacklist = {}
    /\ users = [u \in UserIds |->
                  [exists |-> TRUE, accountStatus |-> "ACTIVE", role |-> RoleOf(u),
                   passwordChangedAt |-> NoDate, lastLogin |-> NoDate,
                   refreshTokenJtis |-> <<>>]]
    /\ roles = [r \in RoleNames |-> [isActive |-> TRUE]]
    /\ issued = <<>>
    /\ req = IdleReq
    /\ adminOps = 0
    /\ lastChange = [u \in UserIds |-> NoDate]
    /\ ThrottleInit({{"auth"}})
    /\ rbac = IdleRbac
    /\ env = ProductionEnv
    /\ slow \in {[IdleSlow EXCEPT !.limiter = l] : l \in SlowDowns}
    /\ pipe = IdlePipe
    /\ iss = [i \in IssueSlots |-> IdleIssue]
    /\ sink = NoEmissions
    /\ db = IdleDb
    /\ proc = IdleProc
    /\ saves = [i \in SaveSlots |-> IdleSave]
    /\ coll = [prefix \in Prefixes |-> {}]

NextDelay ==
    \/ SlowDownRequest
    \/ SlowDownWindowElapsed

SpecDelay == InitDelay /\ [][NextDelay]_vars

\* the first second of the clock, Redis not connected
InitAudit == Init /\ redisOpen = FALSE

\* the handlers that write to the audit log, with nothing changing the stores under them
NextAudit ==
    \/ \E i \in IssueSlots, u \in UserIds : Len(issued) < MaxIssued /\ IssueBegin(i, u)
    \/ \E i \in IssueSlots : IssueUpdate(i)
    \/ \E i \in IssueSlots, outcome \in SinkOutcomes : IssueAudit(i, outcome)
    \/ \E i \in IssueSlots : IssueFinish(i)
    \/ \E t \in AccessTokens : ProtectExtract(t)
    \/ ProtectVerify
    \/ ProtectBlacklist(FALSE)
    \/ ProtectLoad(FALSE)
    \/ Respond
    \/ LogoutBegin
    \/ \E outcome \in SinkOutcomes : LogoutAudit(outcome)
    \/ \E user \in RestrictedActors : RbacArrive(user, "", "", NoParams, {})
    \/ \E allowedRoles \in AllowedRoleLists : restrictTo(allowedRoles)
    \/ RbacFinish
    \/ \E outcome \in SinkOutcomes : SinkSettle(outcome)

SpecAudit == InitAudit /\ [][NextAudit]_vars

NextApp ==
    \/ PipeArrive
    \/ PipeNext
    \/ PipeFinish

SpecApp == InitAudit /\ [][NextApp]_vars

\* bootstrap, step 1
NextConnect ==
    \/ \E retries \in RetryCounts, delay \in Delays : connectDB(retries, delay)
    \/ \E ok \in BOOLEAN, jitter \in Jitters : MongooseConnect(ok, jitter)
    \/ \E ok \in BOOLEAN, jitter \in Jitters : AdminPing(ok, jitter)
    \/ BackoffElapsed

SpecConnect == InitAudit /\ [][NextConnect]_vars

\* the listening process and what ends it
NextShutdown ==
    \/ \E signal \in Signals : shutdown(signal)
    \/ ServerClosed
    \/ \E outcome \in CloseOutcomes : disconnectDB(outcome)
    \/ FlushDone
    \/ forceKillTimeout
    \/ ShutdownTick
    \/ unhandledRejection
    \/ ConnectionLost

SpecShutdown == InitAudit /\ [][NextShutdown]_vars

\* saves of new reservations and payments, interleaved
NextSaves ==
    \/ \E i \in SaveSlots, prefix \in Prefixes : SaveBegin(i, prefix)
    \/ \E i \in SaveSlots : SaveCount(i)
    \/ \E i \in SaveSlots : SaveInsert(i)
    \/ \E i \in SaveSlots : SaveFinish(i)

SpecSaves == InitAudit /\ [][NextSaves]_vars

-----------------------------------------------------------------------------
(* Properties of the token service *)

\* protect has run to its end for the request in flight
ProtectDone == req.pc \in {"authenticated", "rejected"}

\* the request went past protect with an identity attached
Authenticated == req.pc \in {"authenticated", "setEx", "logoutAudit", "loggedOut"}

\* the time createSendToken signed the access credential
IssueTime(token) == issued[CHOOSE i \in 1..Len(issued) : issued[i].access = token].at

\* the step of protect that loads the user and checks it, ended without a store failure
LoadStep ==
    /\ req.pc = "findUser"
    /\ req'.pc # "findUser"
    /\ req'.error # ErrAuthFailed

\* C1: once blacklistToken has completed for the identifier of an issued access
\* credential (the in-process Set holds it from then on), every later protect of that
\* credential that finds it unexpired ends with 'Token has been revoked', whatever
\* Redis was doing at either call.
C1_RevokedCredentialIsRejected ==
    (/\ ProtectDone
     /\ req.token \in AccessTokens
     /\ req.token.jti \in tokenBlacklist
     /\ req.error # ErrExpired)
        => req.error = ErrRevoked

\* C2: a request whose revocation lookup failed (redisClient.get rejected) is never
\* authenticated: protect does not let it pass on the strength of a failed lookup.
C2_FailedLookupFailsClosed ==
    req.lookupFailed => ~Authenticated /\ req.pc # "findUser"

\* C3: when protect reaches its password check for a user whose password was last
\* changed at time T, a credential issued strictly before T is rejected with 'Password
\* was recently changed', and a credential issued after T is not rejected as stale.
C3_PasswordChangeInvalidatesOlderCredentials ==
    [][LoadStep /\ req'.error \in {NoError, ErrStale}
          => LET T == lastChange[req.token.id]
                 issuedAt == IssueTime(req.token)
             IN  /\ (T # NoDate /\ issuedAt < T) => req'.error = ErrStale
                 /\ (T = NoDate \/ issuedAt > T) => req'.error = NoError]_vars

\* a credential issued strictly before its subject's password change and accepted by
\* protect afterwards
C3_RecentCredentialSurvivesChange ==
    /\ req.pc = "authenticated"
    /\ lastChange[req.token.id] # NoDate
    /\ IssueTime(req.token) < lastChange[req.token.id]

VerifyStep == req.pc = "verify" /\ req'.pc # "verify"

BlacklistStep == req.pc = "blacklist" /\ req'.pc # "blacklist"

\* the subject of a credential is stored, ACTIVE, has an active role and has not changed
\* its password since the credential was issued
SubjectInGoodStanding(token) ==
    /\ users[token.id].exists
    /\ users[token.id].accountStatus = "ACTIVE"
    /\ roles[users[token.id].role].isActive
    /\ lastChange[token.id] = NoDate \/ lastChange[token.id] < IssueTime(token)

FirstFailure(token) ==
    LET u == users[token.id]
    IN  IF ~u.exists THEN ErrNotFound
        ELSE IF u.accountStatus # "ACTIVE" THEN ErrAccountDisabled(u.accountStatus)
        ELSE IF ~roles[u.role].isActive THEN ErrRoleDisabled
        ELSE IF u.passwordChangedAt # NoDate /\ token.iat < u.passwordChangedAt \div MsPerSec
        THEN ErrStale
        ELSE NoError

RejectionKinds ==
    {ErrRevoked, ErrNotFound, ErrRoleDisabled, ErrStale}
        \cup {ErrAccountDisabled(s) : s \in AccountStatuses \ {"ACTIVE"}}

\* C5: protect checks revocation before it loads the user (a revoked credential is
\* rejected as revoked without the store being read), and then reports the first failing
\* check in the order: user exists, account status ACTIVE, role active, password not
\* changed after issuance; the rejections are pairwise different responses.
C5_ChecksInOrder ==
    [][/\ (BlacklistStep /\ req'.blacklisted) =>
              req'.pc = "rejected" /\ req'.error = ErrRevoked /\ req'.currentUser = NoUser
       /\ req.pc = "findUser" => ~req.blacklisted
       /\ LoadStep => req'.error = FirstFailure(req.token)
       /\ Cardinality(RejectionKinds) = 4 + Cardinality(AccountStatuses \ {"ACTIVE"})
       /\ NoError \notin RejectionKinds]_vars

\* a revoked credential of a suspended user whose role is deactivated: three failures at once
C5_SeveralFailuresAtOnce ==
    /\ req.pc = "rejected"
    /\ req.error = ErrRevoked
    /\ users[req.token.id].exists
    /\ users[req.token.id].accountStatus # "ACTIVE"
    /\ ~roles[users[req.token.id].role].isActive

-----------------------------------------------------------------------------
(* Properties of the throttle policies *)

TrustedCallers == {"127.0.0.1", "::1", "::ffff:127.0.0.1"}

\* a request that has been answered: passed on (200) or refused by the handler (429)
Answered(i) == treq[i].pc = "done"

IncrementStep(i) == treq[i].pc = "increment" /\ treq'[i].pc = "decide"

DecideStep(i) == treq[i].pc = "decide" /\ treq'[i].pc = "done"

\* C6: under each rateLimit policy with maximum M and under every key, however the
\* requests that share the key interleave, no window admits more than M requests: a
\* request answered when its window has admitted M already (the 6th under max = 5) is
\* refused with 429.
C6_AtMostMaxAdmittedPerWindow ==
    [][/\ \A key \in Keys : key[1] \in HardPolicies =>
             \A w \in DOMAIN admitted[key] : admitted'[key][w] <= MaxOf(key[1])
       /\ \A i \in Slots :
             (/\ DecideStep(i)
              /\ treq[i].policy \in HardPolicies
              /\ admitted[KeyOfSlot(i)][treq[i].window] = MaxOf(treq[i].policy))
                 => /\ treq'[i].statusCode = 429
                    /\ admitted' = admitted]_vars

\* two requests in flight together under authLimiter with one admission left: the one
\* counted 5th was passed on, the one counted 6th was refused
C6_LastSlotRace ==
    /\ mounted = {"auth"}
    /\ \E i, j \in Slots :
          /\ Answered(i) /\ Answered(j)
          /\ KeyOfSlot(i) = KeyOfSlot(j)
          /\ treq[i].window = treq[j].window
          /\ treq[i].totalHits = AuthMax /\ treq[i].statusCode = 200
          /\ treq[j].totalHits = AuthMax + 1 /\ treq[j].statusCode = 429
          /\ admitted[KeyOfSlot(i)][treq[i].window] = AuthMax

\* C7: under a rateLimit policy, a request counted while the window of its key is open
\* adds one to the counter, and is refused when the counter had already reached the
\* maximum; a request counted once the window has elapsed finds the counter reset in
\* that one step, leaves it at exactly 1 and is passed on.
C7_ExceededUntilWindowElapses ==
    [][\A i \in Slots : treq[i].policy \in HardPolicies =>
          LET key == KeyOfSlot(i)
              max == MaxOf(treq[i].policy)
              elapsed == counters[key].resetTime <= ThrottleNowMs
          IN  /\ (IncrementStep(i) /\ elapsed) =>
                    /\ counters'[key].totalHits = 1
                    /\ treq'[i].totalHits = 1
                    /\ counters'[key].resetTime = ThrottleNowMs + WindowMs(treq[i].policy)
              /\ (IncrementStep(i) /\ ~elapsed) =>
                    /\ counters'[key].totalHits = counters[key].totalHits + 1
                    /\ counters'[key].resetTime = counters[key].resetTime
                    /\ treq'[i].totalHits = counters'[key].totalHits
              /\ DecideStep(i) =>
                    treq'[i].statusCode = IF treq[i].totalHits > max THEN 429 ELSE 200]_vars

\* a key that was refused in its first window and, the window over, is passed on again
\* with its counter at 1
C7_AdmittedAgainAfterReset ==
    \E i, j \in Slots :
        /\ Answered(i) /\ Answered(j)
        /\ KeyOfSlot(i) = KeyOfSlot(j)
        /\ treq[i].policy \in HardPolicies
        /\ treq[i].statusCode = 429 /\ treq[i].window = 1
        /\ admitted[KeyOfSlot(i)][1] = MaxOf(treq[i].policy)
        /\ treq[j].statusCode = 200 /\ treq[j].window = 2 /\ treq[j].totalHits = 1
        /\ counters[KeyOfSlot(j)].totalHits = 1

\* C8: a request from 127.0.0.1, ::1 or ::ffff:127.0.0.1 is passed on by every policy,
\* rateLimit and slowDown alike, without delay and before anything is counted: no
\* counter changes, and no counter kept under a trusted address ever leaves zero.
C8_TrustedCallerBypasses ==
    [][/\ \A i \in Slots :
             (treq[i].pc = "idle" /\ treq'[i].pc # "idle" /\ treq'[i].ip \in TrustedCallers)
                 => /\ treq'[i].pc = "done"
                    /\ treq'[i].statusCode = 200
                    /\ treq'[i].delay = 0
                    /\ counters' = counters
       /\ \A key \in Keys : key[2] \in TrustedCallers => counters'[key].totalHits = 0]_vars

\* the IPv4-mapped loopback is passed on while the untrusted caller under the same
\* policy is being refused
C8_TrustedPassedWhileKeyExceeded ==
    \E i, j \in Slots :
        /\ Answered(i) /\ treq[i].ip = "::ffff:127.0.0.1" /\ treq[i].statusCode = 200
        /\ Answered(j) /\ treq[j].statusCode = 429
        /\ treq[i].policy = treq[j].policy

-----------------------------------------------------------------------------
(* Properties of the renewal-identifier history *)

\* the renewal identifiers createSendToken has issued to a user, in issuance order
IssuedRefreshJtis(u) ==
    LET mine == SelectSeq(issued, LAMBDA e : e.refresh.id = u)
    IN  [i \in 1..Len(mine) |-> mine[i].refresh.jti]

LastOf(list, n) ==
    IF Len(list) > n THEN SubSeq(list, Len(list) - n + 1, Len(list)) ELSE list

\* C9: after any sequence of createSendToken calls the history stored on a user is the
\* last min(n, 5) renewal identifiers issued to that user, in issuance order; it holds
\* the latest one and never more than 5.
C9_HistoryIsLastFiveIssued ==
    \A u \in UserIds : users[u].exists =>
        /\ users[u].refreshTokenJtis = LastOf(IssuedRefreshJtis(u), SliceKeep)
        /\ Len(users[u].refreshTokenJtis) <= SliceKeep

-----------------------------------------------------------------------------
(* Properties of the access-control middlewares *)

\* a middleware has answered a request that carries a user
Gated(gate) == rbac.pc = "done" /\ rbac.gate = gate /\ rbac.user.present

\* the middleware called next() without an error
PassedOn == rbac.error = NoError

\* the user's role is one of the hierarchy
HasLevel(user) == user.hasRole /\ user.name \in DOMAIN ROLE_HIERARCHY

ListedIn(list) == {list[k] : k \in 1..Len(list)}

\* C11: preventPrivilegeEscalation lets a request that names a role pass only if that
\* role's level is strictly below the level of the acting user; an equal or higher role
\* is refused (MANAGER naming MANAGER, ADMIN naming ADMIN), ADMIN naming MANAGER passes.
C11_OnlyStrictlyLowerRoleAssignable ==
    (Gated("preventPrivilegeEscalation") /\ RequestedRoleName(rbac) # "") =>
        LET requested == RoleToUpperCase(RequestedRoleName(rbac))
        IN  /\ PassedOn =>
                  /\ HasLevel(rbac.user)
                  /\ requested \in DOMAIN ROLE_HIERARCHY
                  /\ ROLE_HIERARCHY[requested] < ROLE_HIERARCHY[rbac.user.name]
            /\ (rbac.user.hasRole /\ rbac.user.name = "ADMIN" /\ requested = "MANAGER")
                  => PassedOn

\* C12: requirePermission passes a user's request exactly when every required permission
\* is in the user's resolved set, requireAnyPermission exactly when at least one is;
\* every refusal is a 403.
C12_AuthorizeAllAndAny ==
    /\ Gated("requirePermission") =>
          /\ PassedOn <=> ListedIn(rbac.args) \subseteq AllPermissions(rbac.user)
          /\ ~PassedOn => rbac.error.statusCode = 403
    /\ Gated("requireAnyPermission") =>
          /\ PassedOn <=> ListedIn(rbac.args) \cap AllPermissions(rbac.user) # {}
          /\ ~PassedOn => rbac.error.statusCode = 403

\* a RECEPTIONIST with nothing stored on the role is refused manage_payments
C12_ReceptionistDeniedPayments ==
    /\ Gated("requirePermission")
    /\ rbac.user.hasRole /\ rbac.user.name = "RECEPTIONIST" /\ rbac.user.permissions = {}
    /\ rbac.args = <<"manage_payments">>
    /\ rbac.error.statusCode = 403

\* C13: the permission set the gates decide on and attach to the request is the union of
\* the role's defaults in DEFAULT_ROLE_PERMISSIONS and the permissions stored on the role
\* record: it holds every default whatever is stored, and stored permissions only add.
C13_ResolveIsUnionOfDefaultsAndStored ==
    (Gated("requirePermission") \/ Gated("requireAnyPermission")) =>
        LET defaults == IF HasLevel(rbac.user)
                        THEN DEFAULT_ROLE_PERMISSIONS[rbac.user.name] ELSE {}
            stored == IF rbac.user.hasRole THEN rbac.user.permissions ELSE {}
        IN  /\ rbac.hasPermissions =>
                  /\ rbac.userPermissions = defaults \cup stored
                  /\ defaults \subseteq rbac.userPermissions
            /\ (ListedIn(rbac.args) # {} /\ ListedIn(rbac.args) \subseteq defaults) => PassedOn
            /\ (ListedIn(rbac.args) # {} /\ ListedIn(rbac.args) \subseteq stored) => PassedOn

\* a RECEPTIONIST whose role record stores manage_payments passes the gate on it and
\* keeps the defaults of the role
C13_StoredPermissionExtendsDefaults ==
    /\ Gated("requirePermission")
    /\ rbac.user.hasRole /\ rbac.user.name = "RECEPTIONIST"
    /\ rbac.args = <<"manage_payments">>
    /\ PassedOn
    /\ "manage_payments" \in rbac.userPermissions
    /\ "check_in" \in rbac.userPermissions

\* C14: the levels order the four roles HOUSEKEEPING < RECEPTIONIST < MANAGER < ADMIN,
\* and requireMinimumRole with a floor of the hierarchy passes a user's request exactly
\* when the level of the user's role is not below the level of the floor; every refusal
\* is a 403.
C14_MinimumRoleComparesLevels ==
    /\ ROLE_HIERARCHY["HOUSEKEEPING"] < ROLE_HIERARCHY["RECEPTIONIST"]
    /\ ROLE_HIERARCHY["RECEPTIONIST"] < ROLE_HIERARCHY["MANAGER"]
    /\ ROLE_HIERARCHY["MANAGER"] < ROLE_HIERARCHY["ADMIN"]
    /\ Cardinality(DOMAIN ROLE_HIERARCHY) = 4
    /\ Gated("requireMinimumRole") =>
          LET floor == rbac.args[1]
          IN  /\ floor \in DOMAIN ROLE_HIERARCHY =>
                    (PassedOn <=> /\ HasLevel(rbac.user)
                                  /\ ROLE_HIERARCHY[rbac.user.name] >= ROLE_HIERARCHY[floor])
              /\ ~PassedOn => rbac.error.statusCode = 403

\* a MANAGER at a MANAGER floor: the boundary, passed on
C14_ManagerMeetsManagerFloor ==
    /\ Gated("requireMinimumRole")
    /\ rbac.user.hasRole /\ rbac.user.name = "MANAGER"
    /\ rbac.args = <<"MANAGER">>
    /\ PassedOn

\* C15: checkOwnership passes every user's request on; it attaches no ownership filter
\* exactly when the level of the user's role is at or above the level of the bypass role,
\* and otherwise attaches the filter {ownerField: the user's id}.
C15_OwnershipFilterUnlessBypass ==
    Gated("checkOwnership") =>
        LET ownerField == rbac.args[1]
            bypassRole == rbac.args[2]
            bypass == /\ HasLevel(rbac.user)
                      /\ bypassRole \in DOMAIN ROLE_HIERARCHY
                      /\ ROLE_HIERARCHY[rbac.user.name] >= ROLE_HIERARCHY[bypassRole]
        IN  /\ PassedOn
            /\ rbac.ownershipFilter = NoFilter <=> bypass
            /\ ~bypass => rbac.ownershipFilter = [field |-> ownerField, owner |-> rbac.user.id]

\* under a MANAGER bypass a RECEPTIONIST, user 2, is confined to the records assigned
\* to that user
C15_ReceptionistConfinedToOwn ==
    /\ Gated("checkOwnership")
    /\ rbac.user.hasRole /\ rbac.user.name = "RECEPTIONIST" /\ rbac.user.id = 2
    /\ rbac.args = <<"assignedTo", "MANAGER">>
    /\ rbac.ownershipFilter = [field |-> "assignedTo", owner |-> 2]

-----------------------------------------------------------------------------
(* Properties of optionalAuth, the secrets and the revocation entries *)

\* protect, run to its end in the present state without a store failure, would attach
\* the subject of the credential
ProtectWouldAccept(token) ==
    /\ verifyJWT(token) = "ok"
    /\ ~isTokenBlacklisted(token.jti, FALSE)
    /\ ProtectChecks([req EXCEPT !.token = token], findById(token.id)).pc = "authenticated"

\* C16: optionalAuth attaches a user to the request exactly when protect would accept the
\* same credential in the same state (signature, expiry, revocation, user stored, account
\* ACTIVE, role active, password not changed since); otherwise the request goes on
\* anonymous, and never with an error.
C16_OptionalAuthAcceptsWhatProtectAccepts ==
    [][(req.pc \in {"idle", "optVerify", "optFind"} /\ req'.pc = "optDone"
                                                   /\ ~req'.queryFailed)
          => /\ req'.error = NoError
             /\ req'.user # NoUser <=> ProtectWouldAccept(req'.token)]_vars

\* C17: whatever environment the server started with, protect never authenticates a
\* request on a credential that signRefreshToken produced.
C17_RenewalCredentialNeverAccepted ==
    Authenticated => req.token \notin RefreshTokens

\* C18: no revocation entry, neither a live blacklist:<jti> key of Redis nor a member of
\* the in-process Set, exists for a credential whose expiry has passed.
C18_NoEntryOutlivesItsCredential ==
    \A t \in AccessTokens \cup RefreshTokens :
        NowSec >= t.exp => t.jti \notin tokenBlacklist /\ ~RedisKeyLive(t.jti)

\* blacklistToken returns to logout
RevokeCompletes == req.pc \in {"authenticated", "setEx"} /\ req'.pc = "logoutAudit"

\* C19: blacklistToken on an identifier it has revoked before changes nothing: the Set
\* and the live Redis keys stay as they were, and so does the answer of the revocation
\* lookup that protect makes for that identifier.
C19_RevokeTwiceIsNoOp ==
    [][(RevokeCompletes /\ req.token.jti \in tokenBlacklist)
          => /\ tokenBlacklist' = tokenBlacklist
             /\ RedisKeyLive(req.token.jti)' = RedisKeyLive(req.token.jti)
             /\ isTokenBlacklisted(req.token.jti, FALSE)'
                    = isTokenBlacklisted(req.token.jti, FALSE)]_vars

C30_DelayProportionalToHitsPastThreshold ==
    LET threshold == IF slow.limiter = "speedLimiter" THEN 30 ELSE 2
        step == IF slow.limiter = "speedLimiter" THEN 100 ELSE 500
        cap == IF slow.limiter = "speedLimiter" THEN 5000 ELSE 10000
        k == IF slow.used > threshold THEN slow.used - threshold ELSE 0
    IN  slow.delay = IF k * step > cap THEN cap ELSE k * step

(***************************************************************************)
(* Concurrent issuance and the audit sink                                  *)
(***************************************************************************)

\* the renewal identifiers signed for a user whose findByIdAndUpdate has completed
AppendedJtis(u) ==
    {issued[n].refresh.jti : n \in {m \in 1..Len(issued) : issued[m].refresh.id = u}}
        \ {iss[i].refresh.jti : i \in {j \in IssueSlots : iss[j].pc = "update"}}

\* C23: however concurrent calls of createSendToken for one user interleave, every
\* renewal identifier whose update has completed is in the user's history, once each,
\* as long as no more than 5 were appended (nothing is lost but by the cap).
C23_ConcurrentIssuesLoseNoIdentifier ==
    \A u \in UserIds :
        Cardinality(AppendedJtis(u)) <= SliceKeep =>
            /\ {users[u].refreshTokenJtis[n] : n \in 1..Len(users[u].refreshTokenJtis)}
                   = AppendedJtis(u)
            /\ Len(users[u].refreshTokenJtis) = Cardinality(AppendedJtis(u))

\* C24: whether the audit write succeeds or fails, createSendToken answers 200 with the
\* user and the access credential, logout answers 'Logged out successfully' with no
\* error, a restrictTo refusal is answered in the step that starts the write, and the
\* settling of a write nobody awaits changes no request.
C24_AuditFailureLeavesResponseAlone ==
    [][/\ \A i \in IssueSlots :
              (iss[i].pc = "audit" /\ iss'[i].pc # "audit") =>
                  /\ iss'[i].pc = "sent"
                  /\ iss'[i].res = [statusCode |-> 200, status |-> "success",
                                    user |-> iss[i].user, accessToken |-> iss[i].access,
                                    expiresIn |-> env.JWT_EXPIRES_IN]
       /\ (req.pc = "logoutAudit" /\ req'.pc # "logoutAudit") =>
              /\ req'.pc = "loggedOut"
              /\ req'.error = NoError
              /\ req'.user = req.user
       /\ sink'.pending > sink.pending =>
              /\ rbac'.pc = "done"
              /\ rbac'.error = ErrRoleNotAllowed(rbac'.args)
       /\ sink'.pending < sink.pending =>
              /\ rbac' = rbac
              /\ req' = req
              /\ iss' = iss]_vars

\* an issuance answered, a logout answered and a refusal's write ended, all three with
\* the audit write failed
C24_AnsweredThoughAuditFailed ==
    /\ \E i \in IssueSlots :
          /\ iss[i].pc = "sent"
          /\ iss[i].audit = "null"
          /\ iss[i].res.statusCode = 200
    /\ req.pc = "loggedOut"
    /\ req.audit = "null"
    /\ sink.failed > 0

\* C25: no handler is ever parked on an audit write with its response not yet sent:
\* createSendToken and logout answer without waiting for AuditLog.logAction.
C25_NoResponseWaitsForAudit ==
    /\ \A i \in IssueSlots : iss[i].pc # "audit"
    /\ req.pc # "logoutAudit"

(***************************************************************************)
(* Exceptions in protect                                                   *)
(***************************************************************************)

C27_ReadsServedByBackendOfWrites ==
    [][BlacklistStep =>
          IF redisOpen /\ ~req'.lookupFailed
          THEN \A j \in tokenBlacklist : \E e \in redisStore : e.jti = j
          ELSE redisStore = {}]_vars

\* C28: when logout has answered 'Logged out successfully' to a request that presented
\* an issued access credential, still valid at that time, the credential's identifier
\* has been written to the revocation store (the Set or a live Redis key), whether or
\* not protect ran before logout.
C28_LogoutSuccessMeansRevoked ==
    (/\ req.pc \in {"loggedOut", "loggedOutAnon"}
     /\ req.token \in AccessTokens
     /\ verifyJWT(req.token) = "ok")
        => req.token.jti \in tokenBlacklist \/ RedisKeyLive(req.token.jti)

(***************************************************************************)
(* Order of the gatekeeping steps                                          *)
(***************************************************************************)

C38_NoLevelNoGrant ==
    (rbac.pc = "done" /\ rbac.user.present /\ ~HasLevel(rbac.user)) =>
        /\ rbac.gate = "requireMinimumRole" => ~PassedOn
        /\ rbac.gate = "checkOwnership" => rbac.ownershipFilter # NoFilter
        /\ (rbac.gate = "preventPrivilegeEscalation" /\ RequestedRoleName(rbac) # "")
              => ~PassedOn

-----------------------------------------------------------------------------
(* The self-modification guard *)

\* the request names the acting user as its target: by :id, or by :userId on a route
\* without :id
TargetsSelf ==
    \/ rbac.params.id = rbac.user.id
    \/ rbac.params.id = Undefined /\ rbac.params.userId = rbac.user.id

\* the body carries one of the fields the guard was built with
TouchesProtected ==
    \E k \in 1..Len(rbac.args) :
        \/ rbac.args[k] = "role" /\ rbac.role # ""
        \/ rbac.args[k] \in rbac.fields

\* C33: preventSelfModification answers 401 to an unauthenticated request, 403 to a request
\* whose target id (params.id, or params.userId when there is no params.id) is the actor's
\* own id and whose body holds a protected field, and passes every other request on.
C33_SelfModificationGuard ==
    rbac.pc = "done" /\ rbac.gate = "preventSelfModification" =>
        IF ~rbac.user.present THEN rbac.error = ErrAuthRequired
        ELSE IF TargetsSelf /\ TouchesProtected THEN rbac.error.statusCode = 403
        ELSE PassedOn

\* a user reached through :userId is refused the change of their own role
C33_SelfChangeRefused ==
    /\ Gated("preventSelfModification")
    /\ rbac.params.id = Undefined
    /\ rbac.params.userId = rbac.user.id
    /\ rbac.role # ""
    /\ rbac.error.statusCode = 403

-----------------------------------------------------------------------------
(* The published permissions *)

\* C32: the permissions exposePermissions publishes for an authenticated request are the
\* effective permissions of the user, the defaults of the role united with the permissions
\* stored on the role.
C32_PublishedEqualsEffective ==
    (rbac.pc = "done" /\ rbac.gate = "exposePermissions" /\ rbac.user.present) =>
        /\ rbac.headers.sent
        /\ rbac.headers.permissions = AllPermissions(rbac.user)

-----------------------------------------------------------------------------
(* Independence of the throttle policies *)

\* the counters of a policy for an address
CountersOf(policy, ip) == {k \in Keys : k[1] = policy /\ k[2] = ip}

\* the request of slot i is the one whose count is being taken
Counting(i) == treq[i].pc = "increment" /\ treq'[i].pc = "decide"

\* C31: a request counted by one policy under one key changes that counter and no other,
\* whatever the policy or key of the other counters; and a request is refused by a policy
\* only when a counter of that same policy, for the caller's address, is past the policy's
\* ceiling.
C31_PoliciesIndependent ==
    [][/\ \A k \in Keys :
             counters'[k] # counters[k] =>
                 \E i \in Slots : Counting(i) /\ k \in CountersOf(treq[i].policy, treq[i].ip)
       /\ Cardinality({k \in Keys : counters'[k] # counters[k]}) <= 1
       /\ \A i \in Slots :
             (treq'[i].pc = "done" /\ treq'[i].statusCode = 429) =>
                 \E k \in CountersOf(treq'[i].policy, treq'[i].ip) :
                     counters'[k].totalHits > MaxOf(treq'[i].policy)]_vars

\* passwordResetLimiter passes a caller on whose authLimiter counter is past its ceiling
C31_PassedWhileExceededElsewhere ==
    \E i \in Slots :
        /\ treq[i].pc = "done" /\ treq[i].statusCode = 200 /\ treq[i].policy = "pwd_reset"
        /\ ~createSkipFn(treq[i].ip)
        /\ \E k \in CountersOf("auth", treq[i].ip) : counters[k].totalHits > AuthMax

-----------------------------------------------------------------------------
(* The hand-over of protect and optionalAuth *)

\* protect is at work on the request
InProtect == req.pc \in {"verify", "blacklist", "findUser"}

\* optionalAuth is at work on the request
InOptionalAuth == req.pc \in {"optVerify", "optFind"}

\* the step ends protect: it goes from the start or the middle of protect to an outcome
ProtectEnds ==
    /\ req.pc = "idle" \/ InProtect
    /\ req'.pc \in {"rejected", "authenticated"}

\* the step ends optionalAuth
OptionalAuthEnds ==
    /\ req.pc = "idle" \/ InOptionalAuth
    /\ req'.pc = "optDone"

\* C37: protect and optionalAuth invoke the next handler once, at their end and not before,
\* whatever the token and whatever the stores answer; protect leaves req.user and req.token
\* unset when it hands on an error, and when it hands on without one the request carries
\* the user of the token, loaded with an ACTIVE account and an active role.
C37_NextOnceIdentityOnSuccess ==
    [][/\ (InProtect \/ InOptionalAuth) => req.nexts = 0
       /\ ProtectEnds =>
             /\ req'.nexts = 1
             /\ req'.pc = "rejected" =>
                   req'.error # NoError /\ req'.user = NoUser /\ ~req'.hasToken
             /\ req'.pc = "authenticated" =>
                   /\ req'.error = NoError
                   /\ req'.hasToken
                   /\ req'.user # NoUser
                   /\ req'.user.id = req'.token.id
                   /\ req'.user.accountStatus = "ACTIVE"
                   /\ req'.user.role.isActive
       /\ OptionalAuthEnds => req'.nexts = 1 /\ req'.error = NoError
       /\ (~ProtectEnds /\ ~OptionalAuthEnds /\ req'.pc # "idle") => req'.nexts = req.nexts]_vars

\* protect has handed on an error for a loaded user whose account is not ACTIVE, and has
\* attached nothing
C37_RefusedUnattached ==
    /\ req.pc = "rejected"
    /\ req.nexts = 1
    /\ req.currentUser # NoUser
    /\ req.currentUser.accountStatus # "ACTIVE"
    /\ req.user = NoUser

-----------------------------------------------------------------------------
(* The connection to the database at start-up *)

\* C34: connectDB(retries, delay) makes at most `retries` attempts; it returns the
\* connection, connected and answering the ping, at its first successful attempt and makes
\* no attempt after it; it exits the process with code 1 at the retries-th failed attempt
\* and not before; and the wait after the k-th failure is delay * 2^(k-1) plus a jitter
\* below one second.
C34_ConnectOrExit ==
    /\ db.attempt <= db.retries
    /\ db.failures <= db.attempt
    /\ db.pc = "returned" =>
          /\ db.returned = "connection"
          /\ db.connected /\ db.pinged
          /\ db.failures = db.attempt - 1
          /\ db.exitCode = Undefined
    /\ db.pc = "exited" =>
          /\ db.exitCode = 1
          /\ db.failures = db.retries
          /\ ~db.pinged
    /\ db.exitCode # Undefined => db.pc = "exited"
    /\ Len(db.waits) = IF db.pc = "exited" THEN db.failures - 1 ELSE db.failures
    /\ \A k \in 1..Len(db.waits) :
          /\ db.waits[k] >= db.delay * 2 ^ (k - 1)
          /\ db.waits[k] < db.delay * 2 ^ (k - 1) + JitterRangeMs

\* the third attempt succeeded after two failures and two waits
C34_ConnectedAtThirdAttempt ==
    /\ db.pc = "returned"
    /\ db.attempt = 3
    /\ Len(db.waits) = 2
    /\ db.retries = DefaultRetries

-----------------------------------------------------------------------------
(* The shutdown of the process *)

\* the process has exited
Exited == proc.exitCode # Undefined

\* C35: the first SIGTERM, SIGINT or SIGHUP makes the server stop accepting connections
\* and starts the shutdown sequence, which runs once: a signal that arrives while it runs
\* changes nothing. disconnectDB is reached only when the HTTP server has closed. The
\* process exits with code 0 only with the server closed, the database disconnected, no
\* step failed and the 15 s not used up; any other exit of the shutdown is with code 1.
C35_GracefulShutdownOnce ==
    [][/\ (~proc.isShuttingDown /\ proc'.isShuttingDown) =>
             proc'.server # "listening" /\ proc'.stage = "awaitClose"
       /\ proc'.runs <= 1
       /\ (proc.isShuttingDown /\ proc'.ignored # proc.ignored) =>
             proc' = [proc EXCEPT !.ignored = @ + 1]
       /\ proc'.stage \in {"disconnect", "flush"} => proc'.server = "closed"
       /\ (proc.stage = "disconnect" /\ proc'.readyState # proc.readyState) =>
             proc.server = "closed"
       /\ proc'.exitCode = 0 =>
             /\ proc'.isShuttingDown
             /\ proc'.server = "closed"
             /\ proc'.readyState = 0
             /\ ~proc'.failed
             /\ proc'.elapsed < ShutdownTimeoutTicks
       /\ (proc'.exitCode # Undefined /\ proc'.exitCode # 0) =>
             /\ proc'.exitCode = 1
             /\ proc'.failed \/ proc'.elapsed >= ShutdownTimeoutTicks
       /\ Exited => proc' = proc]_vars

\* the process has exited with code 0 after two further signals were ignored
C35_CleanExitSignalsIgnored ==
    /\ proc.exitCode = 0
    /\ proc.ignored = MaxSignals
    /\ proc.runs = 1

-----------------------------------------------------------------------------
(* The generated numbers *)

\* the save of slot i has been given its number
Numbered(i) == saves[i].number # ""

\* C36: two saves of new documents of one schema, on one day, that are under way together
\* are never given the same generated number.
C36_GeneratedNumbersDistinct ==
    \A i, j \in SaveSlots :
        (i # j /\ Numbered(i) /\ Numbered(j) /\ saves[i].prefix = saves[j].prefix) =>
            saves[i].number # saves[j].number

====
